---- MODULE Spec2Model ----
(***************************************************************************)
(* A model of the StatusLed engine (StatusLed.cpp): the per-LED animation  *)
(* state machine, the preset catalog, the one-level temporary override and *)
(* the engine tick with its whole-frame dirty flag.                        *)
(*                                                                         *)
(* Timestamps are uint32_t in the source.  They are kept at their full     *)
(* width as a pair <<hi, lo>> of 16-bit halves, so that every sum and      *)
(* difference wraps exactly as the 32-bit arithmetic of the source does.   *)
(***************************************************************************)
EXTENDS Integers, Sequences, FiniteSets, TLC

\* ------------------------------------------------------------------------
\* Bounds of the model (not program constants).
\* ------------------------------------------------------------------------

\* The number of tick calls a behaviour may hold.
MaxTicks == 4

\* The number of setter calls a behaviour may hold.
MaxCalls == 3

\* The number of evaluations of one LED in a row that a behaviour may hold:
\* more than the 256 values of the phase counter.
MaxEvals == 260

\* ------------------------------------------------------------------------
\* 32-bit unsigned arithmetic on <<hi, lo>> pairs.
\* ------------------------------------------------------------------------

\* One 16-bit half of a uint32_t holds the values 0 .. Half16 - 1.
Half16 == 65536

\* The uint32_t with the value n, for 0 <= n < 2^31.
U32(n) == <<n \div Half16, n % Half16>>

\* a + b on uint32_t (wraps modulo 2^32).
Add32(a, b) ==
  LET s == a[2] + b[2]
  IN  <<(a[1] + b[1] + (s \div Half16)) % Half16, s % Half16>>

\* a - b on uint32_t (wraps modulo 2^32).
Sub32(a, b) ==
  LET borrow == IF a[2] < b[2] THEN 1 ELSE 0
  IN  <<(a[1] - b[1] - borrow + 2 * Half16) % Half16,
        (a[2] - b[2] + Half16) % Half16>>

\* a >= n for a uint32_t a and a 16-bit n.
Ge32(a, n) == a[1] > 0 \/ a[2] >= n

\* static_cast<uint16_t>(a): the low half.
Low16(a) == a[2]

\* a % p for a uint32_t a and 1 <= p < 2^16, without leaving 32 bits.
Mod32(a, p) ==
  LET h1 == ((a[1] % p) * 256) % p
      h2 == (h1 * 256) % p
  IN  (h2 + (a[2] % p)) % p

\* static_cast<uint16_t>((uint32_t)range * pos / span) for 16-bit operands:
\* the product is split in two so that no intermediate leaves 31 bits.
MulDiv16(range, pos, span) ==
  LET x  == range * (pos \div 256)
      y  == range * (pos % 256)
      qx == x \div span
      rx == x % span
  IN  (((qx % 256) * 256) + ((rx * 256 + y) \div span)) % Half16

\* a XOR b on naturals.
RECURSIVE BitXor(_, _)
BitXor(a, b) ==
  IF a = 0 THEN b
  ELSE IF b = 0 THEN a
  ELSE (((a % 2) + (b % 2)) % 2) + 2 * BitXor(a \div 2, b \div 2)

\* ------------------------------------------------------------------------
\* Constants and tables of StatusLed.cpp.
\* ------------------------------------------------------------------------

kMaxLeds == 10

kDimLevel == 48

kNever == <<65535, 65535>>

kMinSmoothStepMs == 5

kMaxSmoothStepMs == 1000

\* enum class Mode, in declaration order (Off = 0).
ModeOrder ==
  <<"Off", "Solid", "Dim", "BlinkSlow", "BlinkFast", "DoubleBlink", "TripleBlink",
    "Beacon", "Strobe", "FadeIn", "FadeOut", "PulseSoft", "PulseSharp",
    "Breathing", "Heartbeat", "Throb", "FlickerCandle", "Glitch", "Alternate">>

Modes == {ModeOrder[k] : k \in 1..Len(ModeOrder)}

\* enum class StatusPreset, in declaration order (Off = 0).
PresetOrder ==
  <<"Off", "Ready", "Busy", "Warning", "Error", "Critical", "Updating", "Info",
    "Maintenance", "AlarmPolice", "HazardAmber">>

Presets == {PresetOrder[k] : k \in 1..Len(PresetOrder)}

\* static_cast<int32_t>(x) of an enumerator named in order; a value that names
\* no enumerator stands for static_cast<E>(99).
EnumValue(order, x) ==
  LET hits == {k \in 1..Len(order) : order[k] = x}
  IN  IF hits = {} THEN 99 ELSE (CHOOSE k \in hits : TRUE) - 1

PatternStep(d, i, a) == [durationMs |-> d, intensity |-> i, useAlt |-> a]

kPatternDoubleBlink ==
  <<PatternStep(120, 255, FALSE), PatternStep(120, 0, FALSE),
    PatternStep(120, 255, FALSE), PatternStep(600, 0, FALSE)>>

kPatternTripleBlink ==
  <<PatternStep(90, 255, FALSE), PatternStep(90, 0, FALSE),
    PatternStep(90, 255, FALSE), PatternStep(90, 0, FALSE),
    PatternStep(90, 255, FALSE), PatternStep(600, 0, FALSE)>>

kPatternBeacon == <<PatternStep(80, 255, FALSE), PatternStep(3920, 0, FALSE)>>

kPatternStrobe == <<PatternStep(50, 255, FALSE), PatternStep(50, 0, FALSE)>>

kPatternHeartbeat ==
  <<PatternStep(70, 255, FALSE), PatternStep(70, 0, FALSE),
    PatternStep(70, 200, FALSE), PatternStep(600, 0, FALSE)>>

kPatternPolice ==
  <<PatternStep(120, 255, FALSE), PatternStep(60, 0, FALSE),
    PatternStep(120, 255, TRUE), PatternStep(400, 0, FALSE)>>

\* The table of a table-driven mode.
PatternOf(mode) ==
  CASE mode = "DoubleBlink" -> kPatternDoubleBlink
    [] mode = "TripleBlink" -> kPatternTripleBlink
    [] mode = "Beacon"      -> kPatternBeacon
    [] mode = "Strobe"      -> kPatternStrobe
    [] mode = "Heartbeat"   -> kPatternHeartbeat
    [] mode = "Alternate"   -> kPatternPolice

kColorOff    == <<0, 0, 0>>
kColorGreen  == <<0, 255, 0>>
kColorOrange == <<255, 128, 0>>
kColorAmber  == <<255, 180, 0>>
kColorRed    == <<255, 0, 0>>
kColorCyan   == <<0, 255, 255>>
kColorBlue   == <<0, 0, 255>>
kColorPurple == <<128, 0, 255>>

PresetDef(p, m, c1, c2, u) ==
  [preset |-> p, mode |-> m, primary |-> c1, secondary |-> c2, useSecondary |-> u]

kPresets ==
  <<PresetDef("Off", "Off", kColorOff, kColorOff, FALSE),
    PresetDef("Ready", "Solid", kColorGreen, kColorOff, FALSE),
    PresetDef("Busy", "PulseSoft", kColorOrange, kColorOff, FALSE),
    PresetDef("Warning", "BlinkSlow", kColorAmber, kColorOff, FALSE),
    PresetDef("Error", "BlinkFast", kColorRed, kColorOff, FALSE),
    PresetDef("Critical", "Strobe", kColorRed, kColorOff, FALSE),
    PresetDef("Updating", "Breathing", kColorCyan, kColorOff, FALSE),
    PresetDef("Info", "Solid", kColorBlue, kColorOff, FALSE),
    PresetDef("Maintenance", "DoubleBlink", kColorPurple, kColorOff, FALSE),
    PresetDef("AlarmPolice", "Alternate", kColorRed, kColorBlue, TRUE),
    PresetDef("HazardAmber", "DoubleBlink", kColorAmber, kColorOff, FALSE)>>

\* findPreset as it would be if a value without an entry were taken for Off.
findPresetOrOff(preset) ==
  LET hits == {k \in 1..Len(kPresets) : kPresets[k].preset = preset}
  IN  IF hits = {} THEN 1
      ELSE CHOOSE k \in hits : \A j \in hits : k <= j

\* The index in kPresets of the first entry for preset, 0 when there is none.
findPreset(preset) ==
  LET hits == {k \in 1..Len(kPresets) : kPresets[k].preset = preset}
  IN  IF hits = {} THEN 0
      ELSE CHOOSE k \in hits : \A j \in hits : k <= j

\* ------------------------------------------------------------------------
\* Pure helpers.
\* ------------------------------------------------------------------------

\* timeReached as it would be with a plain comparison of the two unsigned
\* timestamps.
timeReachedUnsigned(now, target) ==
  now[1] > target[1] \/ (now[1] = target[1] /\ now[2] >= target[2])

\* static_cast<int32_t>(now - target) >= 0
timeReached(now, target) == Sub32(now, target)[1] < 32768

\* scale8 as it would be with a shift in place of the division by 255.
scale8Shift(value, scale) == ((value * scale) \div 256) % 256

\* scale8, the value that is divided by 255: static_cast<uint16_t>(value) *
\* scale + 127, computed in int after the integer promotions.
scale8Sum(value, scale) == value * scale + 127

scale8(value, scale) == (scale8Sum(value, scale) \div 255) % 256

ease8InOut(x) ==
  LET y   == IF x >= 128 THEN 255 - x ELSE x
      z   == (y * y) \div 128
      out == IF z > 255 THEN 255 ELSE z
  IN  IF x >= 128 THEN 255 - out ELSE out

lerpU8(minVal, maxVal, pos, span) ==
  IF span = 0 THEN maxVal
  ELSE LET range  == (maxVal - minVal + Half16) % Half16
           scaled == MulDiv16(range, pos, span)
       IN  (minVal + scaled) % 256

ModeParams(period, on, rise, fall, lo, hi) ==
  [periodMs |-> period, onMs |-> on, riseMs |-> rise, fallMs |-> fall,
   minLevel |-> lo, maxLevel |-> hi]

\* ModeParams{} as the header initialises it.
DefaultParams == ModeParams(1000, 500, 800, 800, 0, 255)

\* sanitizeParams, its checks in order.
ClampPeriod(params) ==
  IF params.periodMs < 2 THEN [params EXCEPT !.periodMs = 2] ELSE params

\* The on-time check as it would be if it let every on-time through.
KeepOn(params) == params

ClampOn(params) ==
  IF params.onMs > params.periodMs THEN [params EXCEPT !.onMs = params.periodMs]
  ELSE params

OrderLevels(params) ==
  IF params.maxLevel < params.minLevel
  THEN [params EXCEPT !.maxLevel = params.minLevel, !.minLevel = params.maxLevel]
  ELSE params

FadeFloor(mode, params) ==
  IF mode = "FadeIn" /\ params.riseMs = 0 THEN [params EXCEPT !.riseMs = 1]
  ELSE IF mode = "FadeOut" /\ params.fallMs = 0 THEN [params EXCEPT !.fallMs = 1]
  ELSE params

sanitizeParams(mode, params) ==
  FadeFloor(mode, OrderLevels(ClampOn(ClampPeriod(params))))

\* isValidMode as it would be if its switch had a default case returning true.
isValidModeAny(mode) == TRUE

isValidMode(mode) == mode \in Modes

getModeDefaults(mode) ==
  CASE mode = "BlinkSlow"  -> [DefaultParams EXCEPT !.periodMs = 1000, !.onMs = 500]
    [] mode = "BlinkFast"  -> [DefaultParams EXCEPT !.periodMs = 250, !.onMs = 125]
    [] mode = "Strobe"     -> [DefaultParams EXCEPT !.periodMs = 100, !.onMs = 50]
    [] mode = "FadeIn"     -> [DefaultParams EXCEPT !.riseMs = 1000]
    [] mode = "FadeOut"    -> [DefaultParams EXCEPT !.fallMs = 1000]
    [] mode = "PulseSoft"  ->
         [DefaultParams EXCEPT !.periodMs = 2000, !.minLevel = 0, !.maxLevel = 255]
    [] mode = "PulseSharp" ->
         [DefaultParams EXCEPT !.periodMs = 800, !.minLevel = 0, !.maxLevel = 255]
    [] mode = "Breathing"  ->
         [DefaultParams EXCEPT !.periodMs = 3000, !.minLevel = 20, !.maxLevel = 255]
    [] mode = "Throb"      ->
         [DefaultParams EXCEPT !.periodMs = 4000, !.minLevel = 0, !.maxLevel = 255]
    [] OTHER               -> DefaultParams

\* ------------------------------------------------------------------------
\* Status values (StatusLed/Status.h is used through its constructor only).
\* ------------------------------------------------------------------------

Status(code, detail) == [code |-> code, detail |-> detail]

Ok == Status("OK", 0)

\* ------------------------------------------------------------------------
\* LedState and the per-LED operations.  An operation of the source that
\* works on _leds[index], _frame[index] and _frameDirty is an operator on a
\* context c = [led, out, dirty]: the LED's state, its frame entry and
\* whether the operation has set the dirty flag.
\* ------------------------------------------------------------------------

\* LedState{} as the header initialises it, with the seed begin() gives slot i.
LedState(i) ==
  [mode |-> "Off", params |-> DefaultParams, color |-> kColorOff,
   altColor |-> kColorOff, brightness |-> 255, intensity |-> 0, phase |-> 0,
   useAlt |-> FALSE, nextUpdateMs |-> U32(0), phaseEndMs |-> U32(0),
   modeStartMs |-> U32(0), currentPreset |-> "Off", defaultPreset |-> "Off",
   tempActive |-> FALSE, tempPending |-> FALSE, tempPreset |-> "Off",
   tempUntilMs |-> U32(0), tempDurationMs |-> U32(0),
   resumeMode |-> "Off", resumeParams |-> DefaultParams,
   resumeColor |-> kColorOff, resumeAltColor |-> kColorOff,
   resumeBrightness |-> 255, resumePreset |-> "Off",
   lfsr |-> BitXor(703710, i * 7919)]

Ctx(led, out) ==
  [led |-> led, out |-> out, dirty |-> FALSE, evaluated |-> FALSE,
   activated |-> FALSE, expired |-> FALSE]

\* refreshLedOutput, the three channels scaled.
ScaleColor(base, scale) ==
  <<scale8(base[1], scale), scale8(base[2], scale), scale8(base[3], scale)>>

\* The write of the frame entry as it would be if every write marked the
\* frame dirty.
WriteFrameAlways(c, out) == [c EXCEPT !.out = out, !.dirty = TRUE]

\* The write of the frame entry as it would be if it never marked the frame
\* dirty.
WriteFrameSilently(c, out) == [c EXCEPT !.out = out]

\* refreshLedOutput, the compare and write of the frame entry.
WriteFrame(c, out) ==
  IF c.out # out THEN [c EXCEPT !.out = out, !.dirty = TRUE] ELSE c

\* refreshLedOutput as it would be if the channel were scaled by intensity,
\* per-LED brightness and global brightness one after the other.
refreshLedOutputChannelFirst(c, intensity, useAlt, globalBrightness) ==
  WriteFrame(c, ScaleColor(ScaleColor(ScaleColor(IF useAlt THEN c.led.altColor
                                                 ELSE c.led.color, intensity),
                                      c.led.brightness),
                           globalBrightness))

refreshLedOutputWith(c, intensity, useAlt, globalBrightness) ==
  WriteFrame(c, ScaleColor(IF useAlt THEN c.led.altColor ELSE c.led.color,
                           scale8(scale8(intensity, c.led.brightness),
                                  globalBrightness)))

refreshLedOutput(c, globalBrightness) ==
  refreshLedOutputWith(c, c.led.intensity, c.led.useAlt, globalBrightness)

setModeInternal(led, mode, params, lastTick) ==
  [led EXCEPT !.mode = mode, !.params = sanitizeParams(mode, params),
              !.phase = 0, !.useAlt = FALSE, !.modeStartMs = lastTick,
              !.nextUpdateMs = lastTick, !.phaseEndMs = lastTick]

\* setColorInternal as it would be if a manual colour change ended a running
\* override the way setPreset does.
setColorInternalCancelling(c, color, secondary, globalBrightness) ==
  refreshLedOutput(
    [c EXCEPT !.led = IF secondary
                      THEN [c.led EXCEPT !.altColor = color, !.tempActive = FALSE]
                      ELSE [c.led EXCEPT !.color = color, !.tempActive = FALSE]],
    globalBrightness)

setColorInternal(c, color, secondary, globalBrightness) ==
  refreshLedOutput(
    [c EXCEPT !.led = IF secondary THEN [c.led EXCEPT !.altColor = color]
                      ELSE [c.led EXCEPT !.color = color]],
    globalBrightness)

\* applyPresetInternal once findPreset has returned the table entry def.
ApplyDef(c, def, lastTick, globalBrightness) ==
  refreshLedOutput(
    [c EXCEPT !.led =
       setModeInternal([c.led EXCEPT !.currentPreset = def.preset,
                                     !.color = def.primary,
                                     !.altColor = def.secondary,
                                     !.useAlt = FALSE],
                       def.mode, getModeDefaults(def.mode), lastTick)],
    globalBrightness)

\* The context after applyPresetInternal; unchanged when the preset is unknown.
applyPresetInternal(c, preset, lastTick, globalBrightness) ==
  IF findPreset(preset) = 0 THEN c
  ELSE ApplyDef(c, kPresets[findPreset(preset)], lastTick, globalBrightness)

\* The snapshot as it would be if it were retaken at every activation.
TakeSnapshotAlways(led) ==
  [led EXCEPT !.resumeMode = led.mode, !.resumeParams = led.params,
              !.resumeColor = led.color, !.resumeAltColor = led.altColor,
              !.resumeBrightness = led.brightness,
              !.resumePreset = led.currentPreset]

\* updateLed, override activation: the snapshot into the resume slot.
TakeSnapshot(led) ==
  IF ~led.tempActive
  THEN [led EXCEPT !.resumeMode = led.mode, !.resumeParams = led.params,
                   !.resumeColor = led.color, !.resumeAltColor = led.altColor,
                   !.resumeBrightness = led.brightness,
                   !.resumePreset = led.currentPreset]
  ELSE led

\* updateLed, override activation: the flags and the expiry set after the
\* preset is applied.
MarkActive(c, now) ==
  [c EXCEPT !.led = [c.led EXCEPT !.tempActive = TRUE, !.tempPending = FALSE,
                                  !.tempUntilMs = Add32(now, c.led.tempDurationMs)],
            !.activated = TRUE]

\* The activation as it would be if it waited for the LED's own deadline.
ActivateWhenDue(c, now, globalBrightness) ==
  IF c.led.tempPending /\ c.led.nextUpdateMs # kNever
     /\ timeReached(now, c.led.nextUpdateMs)
  THEN MarkActive(applyPresetInternal([c EXCEPT !.led = TakeSnapshot(c.led)],
                                      c.led.tempPreset, now, globalBrightness),
                  now)
  ELSE c

\* updateLed, the block run when tempPending is set.
Activate(c, now, globalBrightness) ==
  IF c.led.tempPending
  THEN MarkActive(applyPresetInternal([c EXCEPT !.led = TakeSnapshot(c.led)],
                                      c.led.tempPreset, now, globalBrightness),
                  now)
  ELSE c

\* The write-back as it would be without the preset identity.
RestoreWithoutPreset(led, now) ==
  [led EXCEPT !.tempActive = FALSE, !.mode = led.resumeMode,
              !.params = led.resumeParams, !.color = led.resumeColor,
              !.altColor = led.resumeAltColor, !.brightness = led.resumeBrightness,
              !.phase = 0, !.useAlt = FALSE,
              !.modeStartMs = now, !.nextUpdateMs = now, !.phaseEndMs = now]

\* updateLed, override expiry: the fields written back from the resume slot.
Restore(led, now) ==
  [led EXCEPT !.tempActive = FALSE, !.mode = led.resumeMode,
              !.params = led.resumeParams, !.color = led.resumeColor,
              !.altColor = led.resumeAltColor, !.brightness = led.resumeBrightness,
              !.currentPreset = led.resumePreset, !.phase = 0, !.useAlt = FALSE,
              !.modeStartMs = now, !.nextUpdateMs = now, !.phaseEndMs = now]

\* updateLed, the condition of the expiry block.
Expired(led, now) == led.tempActive /\ timeReached(now, led.tempUntilMs)

\* updateLed, the expiry block.
Expire(c, now, globalBrightness) ==
  IF Expired(c.led, now)
  THEN refreshLedOutput([c EXCEPT !.led = Restore(c.led, now), !.expired = TRUE],
                        globalBrightness)
  ELSE c

\* updateLed, the two early returns before the mode switch.
Due(led, now) == led.nextUpdateMs # kNever /\ timeReached(now, led.nextUpdateMs)

\* The static case as it would be if it left the deadline as it found it.
EvalStaticRescheduling(led) ==
  [led EXCEPT !.intensity = CASE led.mode = "Off" -> 0
                              [] led.mode = "Solid" -> 255
                              [] OTHER -> kDimLevel,
              !.useAlt = FALSE]

\* case Off / Solid / Dim
EvalStatic(led) ==
  [led EXCEPT !.intensity = CASE led.mode = "Off" -> 0
                              [] led.mode = "Solid" -> 255
                              [] OTHER -> kDimLevel,
              !.useAlt = FALSE, !.nextUpdateMs = kNever]

\* case BlinkSlow / BlinkFast, with phaseEndMs computed.
BlinkPhase(led, phaseEnd) ==
  [led EXCEPT !.phase = IF led.phase = 0 THEN 1 ELSE 0,
              !.intensity = IF led.phase = 0 THEN 255 ELSE 0,
              !.useAlt = FALSE, !.phaseEndMs = phaseEnd, !.nextUpdateMs = phaseEnd]

\* case BlinkSlow / BlinkFast
EvalBlink(led, now) ==
  BlinkPhase(led,
    Add32(now, U32(IF led.phase = 0 THEN led.params.onMs
                   ELSE IF led.params.periodMs > led.params.onMs
                        THEN led.params.periodMs - led.params.onMs
                        ELSE 0)))

\* A table-driven case, with step the table entry at phase modulo its length.
PatternPhase(led, now, step) ==
  [led EXCEPT !.intensity = step.intensity, !.useAlt = step.useAlt,
              !.phase = (led.phase + 1) % 256,
              !.nextUpdateMs = Add32(now, U32(step.durationMs))]

\* case DoubleBlink / TripleBlink / Beacon / Strobe / Heartbeat / Alternate
EvalPattern(led, now, table) ==
  PatternPhase(led, now, table[(led.phase % Len(table)) + 1])

\* case FadeIn / FadeOut, with elapsed computed: from is the intensity at
\* elapsed 0, to the terminal one, span the rise or fall duration.
FadeStep(led, now, elapsed, from, to, span, smoothStepMs) ==
  IF Ge32(elapsed, span)
  THEN [led EXCEPT !.intensity = to, !.useAlt = FALSE, !.nextUpdateMs = kNever]
  ELSE [led EXCEPT !.intensity = lerpU8(from, to, Low16(elapsed), span),
                   !.useAlt = FALSE,
                   !.nextUpdateMs = Add32(now, U32(smoothStepMs))]

\* case FadeIn
EvalFadeIn(led, now, smoothStepMs) ==
  FadeStep(led, now, Sub32(now, led.modeStartMs), 0, 255, led.params.riseMs,
           smoothStepMs)

\* case FadeOut
EvalFadeOut(led, now, smoothStepMs) ==
  FadeStep(led, now, Sub32(now, led.modeStartMs), 255, 0, led.params.fallMs,
           smoothStepMs)

\* The pulse family, the triangular ramp at phase = now % period.
PulseRaw(params, phase, half) ==
  IF phase < half
  THEN lerpU8(params.minLevel, params.maxLevel, phase, half)
  ELSE lerpU8(params.maxLevel, params.minLevel, phase - half, half)

\* The pulse family, breathing's square of the eased value.
Square8(x) == scale8(x, x)

\* The pulse family, the shaping of the raw ramp value.
PulseShape(mode, raw) ==
  CASE mode = "PulseSharp" -> raw
    [] mode = "Breathing"  -> Square8(ease8InOut(raw))
    [] OTHER               -> ease8InOut(raw)

\* The pulse family, with period clamped to at least 1.
PulseAt(led, now, period, smoothStepMs) ==
  [led EXCEPT !.intensity = PulseShape(led.mode,
                                PulseRaw(led.params, Mod32(now, period),
                                         period \div 2)),
              !.useAlt = FALSE,
              !.nextUpdateMs = Add32(now, U32(smoothStepMs))]

\* case PulseSoft / PulseSharp / Breathing / Throb
EvalPulse(led, now, smoothStepMs) ==
  PulseAt(led, now, IF led.params.periodMs > 0 THEN led.params.periodMs ELSE 1,
          smoothStepMs)

\* The generator step as it would be without the feedback term.
LfsrNextShifting(lfsr) == lfsr \div 2

\* The generator step: (lfsr >> 1) ^ (-(lfsr & 1) & 0xB400).
LfsrNext(lfsr) == BitXor(lfsr \div 2, IF lfsr % 2 = 1 THEN 46080 ELSE 0)

\* The flicker family as it would be if the candle took the random byte as
\* its intensity and the jitter were the byte itself.
FlickerAtUnbounded(led, now, lfsr, rand8) ==
  [led EXCEPT !.lfsr = lfsr,
              !.intensity = IF led.mode = "FlickerCandle" THEN rand8
                            ELSE IF rand8 < 30 THEN 0 ELSE 255,
              !.useAlt = FALSE,
              !.nextUpdateMs = Add32(now, U32(30 + rand8))]

\* The flicker family, with the generator advanced to lfsr.
FlickerAt(led, now, lfsr, rand8) ==
  [led EXCEPT !.lfsr = lfsr,
              !.intensity = IF led.mode = "FlickerCandle"
                            THEN (140 + (rand8 % 100)) % 256
                            ELSE IF rand8 < 30 THEN 0 ELSE 255,
              !.useAlt = FALSE,
              !.nextUpdateMs = Add32(now, U32(30 + (rand8 % 60)))]

\* The flicker family, with rand8 taken from the advanced generator.
FlickerWith(led, now, lfsr) == FlickerAt(led, now, lfsr, lfsr % 256)

\* case FlickerCandle / Glitch
EvalFlicker(led, now) == FlickerWith(led, now, LfsrNext(led.lfsr))

\* updateLed, the switch over led.mode.
ModeEval(led, now, smoothStepMs) ==
  CASE led.mode \in {"Off", "Solid", "Dim"} -> EvalStatic(led)
    [] led.mode \in {"BlinkSlow", "BlinkFast"} -> EvalBlink(led, now)
    [] led.mode \in {"DoubleBlink", "TripleBlink", "Beacon", "Strobe",
                     "Heartbeat", "Alternate"} ->
         EvalPattern(led, now, PatternOf(led.mode))
    [] led.mode = "FadeIn" -> EvalFadeIn(led, now, smoothStepMs)
    [] led.mode = "FadeOut" -> EvalFadeOut(led, now, smoothStepMs)
    [] led.mode \in {"PulseSoft", "PulseSharp", "Breathing", "Throb"} ->
         EvalPulse(led, now, smoothStepMs)
    [] led.mode \in {"FlickerCandle", "Glitch"} -> EvalFlicker(led, now)
    [] OTHER -> [led EXCEPT !.intensity = 0, !.nextUpdateMs = kNever]

\* updateLed, the mode switch and the refresh that follows it.
Evaluate(c, globalBrightness) ==
  refreshLedOutputWith([c EXCEPT !.evaluated = TRUE], c.led.intensity, c.led.useAlt,
                       globalBrightness)

\* updateLed from its early returns on.
Schedule(c, now, globalBrightness, smoothStepMs) ==
  IF Due(c.led, now)
  THEN Evaluate([c EXCEPT !.led = ModeEval(c.led, now, smoothStepMs)],
                globalBrightness)
  ELSE c

\* updateLed(index, now_ms) on the context of that LED.  Besides the LED, its
\* frame entry and the dirty mark, the context reports whether the mode
\* switch ran, whether the override was activated and whether it expired.
updateLed(c, now, globalBrightness, smoothStepMs) ==
  Schedule(Expire(Activate(c, now, globalBrightness), now, globalBrightness),
           now, globalBrightness, smoothStepMs)

\* ------------------------------------------------------------------------
\* The engine (class StatusLed), its backend and its caller.
\* ------------------------------------------------------------------------

VARIABLES
  initialized,   \* _initialized
  config,        \* _config
  lastStatus,    \* _lastStatus
  lastTickMs,    \* _lastTickMs
  frameDirty,    \* _frameDirty
  leds,          \* _leds[kMaxLedCount]
  frame,         \* _frame[kMaxLedCount]
  backend,       \* _backend: "none" (nullptr) or "live"
  shown,         \* the frame the backend took at its last successful show
  clock,         \* the caller's millisecond counter at its last tick call
  ticks,         \* the number of tick calls so far
  calls,         \* the number of other calls so far
  op,            \* the last call made
  ret,           \* the Status the last call returned (Ok for the void calls)
  request,       \* the arguments of the last call, in the order of its
                 \* signature (for tick: the backend's answers; for begin:
                 \* the configuration and what the backend did)
  snapshot,      \* the LedSnapshot object the caller passes to getLedSnapshot
  tickInfo,      \* what the last call, if a tick, did: the LEDs whose mode
                 \* switch ran, whose override was activated (and, of these,
                 \* while one was active), whose override expired, _frameDirty
                 \* after the loop over the LEDs and whether the backend's show
                 \* was called
  obs,           \* per LED, what a caller can have recorded: its settings at
                 \* the end of the last call that left it with no active
                 \* override, the time of the first evaluation since its mode
                 \* was last started (<<>> before it), the number of
                 \* activations of the current or last override and whether a
                 \* manual setter was applied during it
  applied,       \* a pure function of the source, the arguments it is given
                 \* and, once it has been applied, its result
  journal        \* the calls made on a first engine (name, arguments and
                 \* time of each, with the LED states and the frame before
                 \* it), the LED states and frame it ended with, and how many
                 \* of these calls a second engine has repeated

vars ==
  <<initialized, config, lastStatus, lastTickMs, frameDirty, leds, frame, backend,
    shown, clock, ticks, calls, op, ret, request, snapshot, tickInfo, obs, applied,
    journal>>

Slots == 0 .. (kMaxLeds - 1)

\* Config{} as the header initialises it.
DefaultConfig ==
  [dataPin |-> -1, ledCount |-> 0, colorOrder |-> "GRB", rmtChannel |-> 0,
   globalBrightness |-> 255, smoothStepMs |-> 20]

\* The values of enum class ColorOrder.
ColorOrders == {"GRB", "RGB"}

\* make_config() of the native tests.
make_config ==
  [DefaultConfig EXCEPT !.dataPin = 1, !.ledCount = 1, !.colorOrder = "GRB",
                        !.rmtChannel = 0, !.smoothStepMs = 20]

\* indexValid as it would be if it tested the index against the array size.
indexValidSlot(index) == index < kMaxLeds

indexValid(index) == index < config.ledCount

\* The settings of an LED that an override snapshots and restores.
Settings(led) ==
  [mode |-> led.mode, params |-> led.params, color |-> led.color,
   altColor |-> led.altColor, brightness |-> led.brightness,
   preset |-> led.currentPreset]

\* getLedSnapshot as it would be if it reported an active override's whole
\* duration.
getLedSnapshotFullDuration(index) ==
  LET led == leds[index]
  IN  [mode |-> led.mode, preset |-> led.currentPreset,
       defaultPreset |-> led.defaultPreset, color |-> led.color,
       altColor |-> led.altColor, brightness |-> led.brightness,
       intensity |-> led.intensity, tempActive |-> led.tempActive,
       tempRemainingMs |-> IF led.tempActive THEN led.tempDurationMs ELSE U32(0)]

\* What getLedSnapshot(index, out) writes to *out.
getLedSnapshot(index) ==
  LET led == leds[index]
  IN  [mode |-> led.mode, preset |-> led.currentPreset,
       defaultPreset |-> led.defaultPreset, color |-> led.color,
       altColor |-> led.altColor, brightness |-> led.brightness,
       intensity |-> led.intensity, tempActive |-> led.tempActive,
       tempRemainingMs |->
         IF led.tempActive /\ ~timeReached(lastTickMs, led.tempUntilMs)
         THEN Sub32(led.tempUntilMs, lastTickMs)
         ELSE U32(0)]

NoTick == [evaluated |-> {}, activated |-> {}, nested |-> {}, expired |-> {},
           idle |-> {}, dirty |-> FALSE, showCalled |-> FALSE]

\* LedSnapshot{} as the header initialises it.
LedSnapshot ==
  [mode |-> "Off", preset |-> "Off", defaultPreset |-> "Off", color |-> kColorOff,
   altColor |-> kColorOff, brightness |-> 255, intensity |-> 0,
   tempActive |-> FALSE, tempRemainingMs |-> U32(0)]

ObsInit(led) ==
  [stable |-> Settings(led), firstEval |-> <<>>, depth |-> 0, manual |-> FALSE]

\* The state of a constructed, not yet begun StatusLed object.
Constructed ==
  /\ initialized = FALSE
  /\ config = DefaultConfig
  /\ lastStatus = Ok
  /\ lastTickMs = U32(0)
  /\ frameDirty = FALSE
  /\ leds = [i \in Slots |-> [LedState(i) EXCEPT !.lfsr = 703710]]
  /\ frame = [i \in Slots |-> kColorOff]
  /\ backend = "none"
  /\ shown = [i \in Slots |-> kColorOff]
  /\ ticks = 0
  /\ calls = 0
  /\ op = "construct"
  /\ ret = Ok
  /\ request = <<>>
  /\ snapshot = LedSnapshot
  /\ tickInfo = NoTick
  /\ obs = [i \in Slots |-> ObsInit(LedState(i))]

\* The state right after a successful begin(cfg) on a constructed object.
Begun(cfg) ==
  /\ initialized = TRUE
  /\ config = cfg
  /\ lastStatus = Ok
  /\ lastTickMs = U32(0)
  /\ frameDirty = TRUE
  /\ leds = [i \in Slots |-> LedState(i)]
  /\ frame = [i \in Slots |-> kColorOff]
  /\ backend = "live"
  /\ shown = [i \in Slots |-> kColorOff]
  /\ ticks = 0
  /\ calls = 0
  /\ op = "begin"
  /\ ret = Ok
  /\ request = <<cfg, "ok">>
  /\ snapshot = LedSnapshot
  /\ tickInfo = NoTick
  /\ obs = [i \in Slots |-> ObsInit(LedState(i))]

\* No pure function is under test.
NotApplied == [fn |-> "none", args |-> <<>>, done |-> FALSE, result |-> <<>>]

\* No run is recorded.
NoJournal == [mode |-> "off", pos |-> 0, log |-> <<>>, leds |-> <<>>, frame |-> <<>>]

\* The journal after the call name(args) at time now: the call is added while
\* a first run is recorded, and must be the next recorded one while a second
\* run repeats the first.
Journalled(name, args, now) ==
  CASE journal.mode = "record" ->
         journal' = [journal EXCEPT
                       !.log = Append(@, [op |-> name, args |-> args, now |-> now,
                                          leds |-> leds, frame |-> frame])]
    [] journal.mode = "replay" ->
         /\ journal.pos < Len(journal.log)
         /\ journal.log[journal.pos + 1].op = name
         /\ journal.log[journal.pos + 1].args = args
         /\ journal.log[journal.pos + 1].now = now
         /\ journal' = [journal EXCEPT !.pos = @ + 1]
    [] OTHER -> journal' = journal

\* What every call other than tick does to the caller's own variables.
Returned(name, st) ==
  /\ calls < MaxCalls
  /\ calls' = calls + 1
  /\ op' = name
  /\ ret' = st
  /\ tickInfo' = NoTick
  /\ Journalled(name, request', clock)
  /\ UNCHANGED <<clock, ticks, applied>>

\* The same for a call that is not given the caller's LedSnapshot.
Called(name, st) == Returned(name, st) /\ UNCHANGED snapshot

\* obs after a setter: restart holds the LEDs whose mode the call started
\* afresh, manual those a manual setter was applied to.
Observed(restart, manual) ==
  obs' = [i \in Slots |->
            [obs[i] EXCEPT
               !.stable = IF leds'[i].tempActive THEN @ ELSE Settings(leds'[i]),
               !.firstEval = IF i \in restart THEN <<>> ELSE @,
               !.manual = @ \/ (i \in manual /\ leds[i].tempActive)]]

\* A setter's guards as they would be without the check of _initialized.
GuardIndexOnly(index) ==
  IF ~indexValid(index) THEN Status("INVALID_CONFIG", index) ELSE Ok

\* A setter's two guards; the Status it returns when one fails, else Ok.
Guard(index) ==
  IF ~initialized THEN Status("NOT_INITIALIZED", 0)
  ELSE IF ~indexValid(index) THEN Status("INVALID_CONFIG", index)
  ELSE Ok

\* A call that returns st without touching the engine but for _lastStatus.
Rejected(name, st) ==
  /\ Called(name, st)
  /\ lastStatus' = st
  /\ UNCHANGED <<initialized, config, lastTickMs, frameDirty, leds, frame, backend,
                 shown, obs>>

\* A setter that leaves LED index in context c and returns Ok.
Applied(name, index, c, restart, manual) ==
  /\ Called(name, Ok)
  /\ lastStatus' = Ok
  /\ leds' = [leds EXCEPT ![index] = c.led]
  /\ frame' = [frame EXCEPT ![index] = c.out]
  /\ frameDirty' = (frameDirty \/ c.dirty)
  /\ Observed(restart, manual)
  /\ UNCHANGED <<initialized, config, lastTickMs, backend, shown>>

\* end()
End ==
  /\ request' = <<>>
  /\ Called("end", Ok)
  /\ backend' = "none"
  /\ initialized' = FALSE
  /\ UNCHANGED <<config, lastStatus, lastTickMs, frameDirty, leds, frame, shown, obs>>

\* The checks of begin as they would be if the one of dataPin reported the
\* pin as its detail, as the others report their field.
ValidateConfigPinDetail(cfg) ==
  IF cfg.dataPin < 0 THEN Status("INVALID_CONFIG", cfg.dataPin)
  ELSE IF cfg.ledCount = 0 \/ cfg.ledCount > kMaxLeds
  THEN Status("INVALID_CONFIG", cfg.ledCount)
  ELSE IF cfg.rmtChannel > 3 THEN Status("INVALID_CONFIG", cfg.rmtChannel)
  ELSE IF cfg.smoothStepMs < kMinSmoothStepMs \/ cfg.smoothStepMs > kMaxSmoothStepMs
  THEN Status("INVALID_CONFIG", cfg.smoothStepMs)
  ELSE Ok

\* begin, the checks of the configuration: the Status of the first one that
\* fails, else Ok.
ValidateConfig(cfg) ==
  IF cfg.dataPin < 0 THEN Status("INVALID_CONFIG", 0)
  ELSE IF cfg.ledCount = 0 \/ cfg.ledCount > kMaxLeds
  THEN Status("INVALID_CONFIG", cfg.ledCount)
  ELSE IF cfg.rmtChannel > 3 THEN Status("INVALID_CONFIG", cfg.rmtChannel)
  ELSE IF cfg.smoothStepMs < kMinSmoothStepMs \/ cfg.smoothStepMs > kMaxSmoothStepMs
  THEN Status("INVALID_CONFIG", cfg.smoothStepMs)
  ELSE Ok

\* A rejection as it would be if the call ran end() before its checks.
RejectedEnding(name, st) ==
  /\ Called(name, st)
  /\ lastStatus' = st
  /\ initialized' = FALSE
  /\ backend' = "none"
  /\ UNCHANGED <<config, lastTickMs, frameDirty, leds, frame, shown, obs>>

\* begin, the return of a failed check.
RejectedConfig(name, st) == Rejected(name, st)

\* _frameDirty after begin as it would be if begin left it as it resets it.
CleanAfterBegin(outcome) == FALSE

\* begin, _frameDirty when it returns: reset before the backend is created,
\* set once the backend has begun.
DirtyAfterBegin(outcome) == outcome = "ok"

\* begin(cfg); outcome is what the backend does: "ok", "alloc_failed"
\* (createBackend returns nullptr) or "begin_failed" (its begin returns st).
Begin(cfg, outcome, st) ==
  /\ request' = <<cfg, outcome>>
  /\ LET bad == ValidateConfig(cfg)
         result == CASE outcome = "ok" -> Ok
                     [] outcome = "alloc_failed" -> Status("OUT_OF_MEMORY", 0)
                     [] OTHER -> st
     IN  IF bad # Ok THEN RejectedConfig("begin", bad)
         ELSE /\ Called("begin", result)
              /\ lastStatus' = result
              /\ config' = cfg
              /\ lastTickMs' = U32(0)
              /\ leds' = [i \in Slots |-> LedState(i)]
              /\ frame' = [i \in Slots |-> kColorOff]
              /\ backend' = IF outcome = "ok" THEN "live" ELSE "none"
              /\ initialized' = (outcome = "ok")
              /\ frameDirty' = DirtyAfterBegin(outcome)
              /\ shown' = [i \in Slots |-> kColorOff]
              /\ obs' = [i \in Slots |-> ObsInit(LedState(i))]

\* setMode as it would be if it left the LED's current preset alone.
SetModeKeepingPreset(index, mode, params) ==
  /\ request' = <<index, mode, params>>
  /\ LET g == Guard(index)
     IN  IF g # Ok THEN Rejected("setMode", g)
         ELSE IF ~isValidMode(mode)
         THEN Rejected("setMode", Status("INVALID_CONFIG", EnumValue(ModeOrder, mode)))
         ELSE Applied("setMode", index,
                      Ctx(setModeInternal(leds[index], mode, params, lastTickMs),
                          frame[index]),
                      {index}, {index})

SetMode(index, mode, params) ==
  /\ request' = <<index, mode, params>>
  /\ LET g == Guard(index)
     IN  IF g # Ok THEN Rejected("setMode", g)
         ELSE IF ~isValidMode(mode)
         THEN Rejected("setMode", Status("INVALID_CONFIG", EnumValue(ModeOrder, mode)))
         ELSE Applied("setMode", index,
                      Ctx(setModeInternal([leds[index] EXCEPT !.currentPreset = "Off"],
                                          mode, params, lastTickMs),
                          frame[index]),
                      {index}, {index})

SetColor(index, color) ==
  /\ request' = <<index, color>>
  /\ LET g == Guard(index)
     IN  IF g # Ok THEN Rejected("setColor", g)
         ELSE Applied("setColor", index,
                      setColorInternal(Ctx([leds[index] EXCEPT !.currentPreset = "Off"],
                                           frame[index]),
                                       color, FALSE, config.globalBrightness),
                      {}, {index})

SetSecondaryColor(index, color) ==
  /\ request' = <<index, color>>
  /\ LET g == Guard(index)
     IN  IF g # Ok THEN Rejected("setSecondaryColor", g)
         ELSE Applied("setSecondaryColor", index,
                      setColorInternal(Ctx([leds[index] EXCEPT !.currentPreset = "Off"],
                                           frame[index]),
                                       color, TRUE, config.globalBrightness),
                      {}, {index})

\* setPreset as it would be if it left a pending or active override alone.
SetPresetKeepingOverride(index, preset) ==
  /\ request' = <<index, preset>>
  /\ LET g == Guard(index)
     IN  IF g # Ok THEN Rejected("setPreset", g)
         ELSE IF findPreset(preset) = 0
         THEN Rejected("setPreset",
                       Status("INVALID_CONFIG", EnumValue(PresetOrder, preset)))
         ELSE Applied("setPreset", index,
                      applyPresetInternal(Ctx(leds[index], frame[index]), preset,
                                          lastTickMs, config.globalBrightness),
                      {index}, {})

SetPreset(index, preset) ==
  /\ request' = <<index, preset>>
  /\ LET g == Guard(index)
         cleared == [leds[index] EXCEPT !.tempActive = FALSE, !.tempPending = FALSE]
         unknown == Status("INVALID_CONFIG", EnumValue(PresetOrder, preset))
     IN  IF g # Ok THEN Rejected("setPreset", g)
         ELSE IF findPreset(preset) = 0
         THEN /\ Called("setPreset", unknown)
              /\ lastStatus' = unknown
              /\ leds' = [leds EXCEPT ![index] = cleared]
              /\ Observed({}, {})
              /\ UNCHANGED <<initialized, config, lastTickMs, frameDirty, frame,
                             backend, shown>>
         ELSE Applied("setPreset", index,
                      applyPresetInternal(Ctx(cleared, frame[index]), preset,
                                          lastTickMs, config.globalBrightness),
                      {index}, {})

\* The test of setDefaultPreset as it would be if it looked at the preset only.
IsIdleByPreset(led) == led.currentPreset = "Off"

\* setDefaultPreset, the test that lets it apply the preset at once.
IsIdle(led) == led.currentPreset = "Off" /\ led.mode = "Off"

SetDefaultPreset(index, preset) ==
  /\ request' = <<index, preset>>
  /\ LET g == Guard(index)
         led == [leds[index] EXCEPT !.defaultPreset = preset]
     IN  IF g # Ok THEN Rejected("setDefaultPreset", g)
         ELSE IF findPreset(preset) = 0
         THEN Rejected("setDefaultPreset",
                       Status("INVALID_CONFIG", EnumValue(PresetOrder, preset)))
         ELSE IF IsIdle(led)
         THEN Applied("setDefaultPreset", index,
                      applyPresetInternal(Ctx(led, frame[index]), preset,
                                          lastTickMs, config.globalBrightness),
                      {index}, {})
         ELSE Applied("setDefaultPreset", index, Ctx(led, frame[index]), {}, {})

SetTemporaryPreset(index, preset, durationMs) ==
  /\ request' = <<index, preset, durationMs>>
  /\ LET g == Guard(index)
     IN  IF g # Ok THEN Rejected("setTemporaryPreset", g)
         ELSE IF durationMs = U32(0)
         THEN Rejected("setTemporaryPreset", Status("INVALID_CONFIG", 0))
         ELSE IF findPreset(preset) = 0
         THEN Rejected("setTemporaryPreset",
                       Status("INVALID_CONFIG", EnumValue(PresetOrder, preset)))
         ELSE Applied("setTemporaryPreset", index,
                      Ctx([leds[index] EXCEPT !.tempPreset = preset,
                                              !.tempDurationMs = durationMs,
                                              !.tempPending = TRUE],
                          frame[index]),
                      {}, {})

SetBrightness(index, level) ==
  /\ request' = <<index, level>>
  /\ LET g == Guard(index)
     IN  IF g # Ok THEN Rejected("setBrightness", g)
         ELSE Applied("setBrightness", index,
                      refreshLedOutput(Ctx([leds[index] EXCEPT !.brightness = level],
                                           frame[index]),
                                       config.globalBrightness),
                      {}, {index})

SetGlobalBrightness(level) ==
  /\ request' = <<level>>
  /\ IF ~initialized THEN Rejected("setGlobalBrightness", Status("NOT_INITIALIZED", 0))
     ELSE LET upd == {i \in Slots : i < config.ledCount}
              r   == [i \in upd |-> refreshLedOutput(Ctx(leds[i], frame[i]), level)]
          IN  /\ Called("setGlobalBrightness", Ok)
              /\ lastStatus' = Ok
              /\ config' = [config EXCEPT !.globalBrightness = level]
              /\ frame' = [i \in Slots |-> IF i \in upd THEN r[i].out ELSE frame[i]]
              /\ frameDirty' = (frameDirty \/ \E i \in upd : r[i].dirty)
              /\ UNCHANGED <<initialized, lastTickMs, leds, backend, shown, obs>>

\* getLedSnapshot(index, out); out tells whether the pointer is non-null.  The
\* function is const and returns its Status without recording it.
GetLedSnapshot(index, out) ==
  /\ request' = <<index, out>>
  /\ Returned("getLedSnapshot",
              IF ~initialized THEN Status("NOT_INITIALIZED", 0)
              ELSE IF ~out THEN Status("INVALID_CONFIG", 0)
              ELSE IF ~indexValid(index) THEN Status("INVALID_CONFIG", index)
              ELSE Ok)
  /\ snapshot' = IF initialized /\ out /\ indexValid(index)
                 THEN getLedSnapshot(index) ELSE snapshot
  /\ UNCHANGED <<initialized, config, lastStatus, lastTickMs, frameDirty, leds, frame,
                 backend, shown, obs>>

\* obs after a tick at now that left LED i with the result r of updateLed.
ObservedTick(i, r, now) ==
  [obs[i] EXCEPT
     !.stable = IF r.led.tempActive THEN @ ELSE Settings(r.led),
     !.firstEval = IF r.evaluated
                   THEN (IF r.activated \/ r.expired \/ @ = <<>> THEN now ELSE @)
                   ELSE (IF r.activated \/ r.expired THEN <<>> ELSE @),
     !.depth = IF r.activated THEN (IF leds[i].tempActive THEN @ + 1 ELSE 1) ELSE @,
     !.manual = IF r.activated /\ ~leds[i].tempActive THEN FALSE ELSE @]

\* tick, _frameDirty after the loop over the LEDs.
Dirtied(upd, r) == frameDirty \/ \E i \in upd : r[i].dirty

\* The hand-over as it would be if a busy backend's answer were recorded as
\* the last status like any other failure.
TransmitRecordingBusy(dirty, send, res) ==
  /\ frameDirty' = (dirty /\ ~(send /\ res.code = "OK"))
  /\ shown' = IF send /\ res.code = "OK" THEN frame' ELSE shown
  /\ lastStatus' = IF send /\ res.code # "OK" THEN res ELSE lastStatus

\* The hand-over as it would be if every call of show cleared the dirty flag.
TransmitDropping(dirty, send, res) ==
  /\ frameDirty' = (dirty /\ ~send)
  /\ shown' = IF send /\ res.code = "OK" THEN frame' ELSE shown
  /\ lastStatus' = IF send /\ res.code \notin {"OK", "RESOURCE_BUSY"}
                   THEN res ELSE lastStatus

\* tick, the hand-over of the frame: send tells whether show is called.
Transmit(dirty, send, res) ==
  /\ frameDirty' = (dirty /\ ~(send /\ res.code = "OK"))
  /\ shown' = IF send /\ res.code = "OK" THEN frame' ELSE shown
  /\ lastStatus' = IF send /\ res.code \notin {"OK", "RESOURCE_BUSY"}
                   THEN res ELSE lastStatus

\* tick as it would be with one generator for the whole engine, the one of
\* LED 0, in place of one per LED.
TickLedsSharedLfsr(now, upd, r, can, res) ==
  /\ lastTickMs' = now
  /\ leds' = [i \in Slots |-> IF i \in upd
                                THEN [r[i].led EXCEPT !.lfsr = r[0].led.lfsr]
                                ELSE leds[i]]
  /\ frame' = [i \in Slots |-> IF i \in upd THEN r[i].out ELSE frame[i]]
  /\ obs' = [i \in Slots |-> IF i \in upd THEN ObservedTick(i, r[i], now) ELSE obs[i]]
  /\ Transmit(Dirtied(upd, r), Dirtied(upd, r) /\ backend # "none" /\ can, res)
  /\ tickInfo' = [evaluated |-> {i \in upd : r[i].evaluated},
                  activated |-> {i \in upd : r[i].activated},
                  nested |-> {i \in upd : r[i].activated /\ leds[i].tempActive},
                  expired |-> {i \in upd : r[i].expired},
                  idle |-> {i \in upd : ~Due(leds[i], now)},
                  dirty |-> Dirtied(upd, r),
                  showCalled |-> Dirtied(upd, r) /\ backend # "none" /\ can]

\* tick as it would be if the LEDs stood still while the backend does not
\* take the frame.
TickLedsStalling(now, upd, r, can, res) ==
  /\ lastTickMs' = now
  /\ leds' = IF can /\ res.code = "OK"
             THEN [i \in Slots |-> IF i \in upd THEN r[i].led ELSE leds[i]]
             ELSE leds
  /\ frame' = [i \in Slots |-> IF i \in upd THEN r[i].out ELSE frame[i]]
  /\ obs' = [i \in Slots |-> IF i \in upd THEN ObservedTick(i, r[i], now) ELSE obs[i]]
  /\ Transmit(Dirtied(upd, r), Dirtied(upd, r) /\ backend # "none" /\ can, res)
  /\ tickInfo' = [evaluated |-> {i \in upd : r[i].evaluated},
                  activated |-> {i \in upd : r[i].activated},
                  nested |-> {i \in upd : r[i].activated /\ leds[i].tempActive},
                  expired |-> {i \in upd : r[i].expired},
                  idle |-> {i \in upd : ~Due(leds[i], now)},
                  dirty |-> Dirtied(upd, r),
                  showCalled |-> Dirtied(upd, r) /\ backend # "none" /\ can]

\* tick(now_ms) on an initialized engine, with r[i] the result of updateLed
\* for each configured LED i.
TickLeds(now, upd, r, can, res) ==
  /\ lastTickMs' = now
  /\ leds' = [i \in Slots |-> IF i \in upd THEN r[i].led ELSE leds[i]]
  /\ frame' = [i \in Slots |-> IF i \in upd THEN r[i].out ELSE frame[i]]
  /\ obs' = [i \in Slots |-> IF i \in upd THEN ObservedTick(i, r[i], now) ELSE obs[i]]
  /\ Transmit(Dirtied(upd, r), Dirtied(upd, r) /\ backend # "none" /\ can, res)
  /\ tickInfo' = [evaluated |-> {i \in upd : r[i].evaluated},
                  activated |-> {i \in upd : r[i].activated},
                  nested |-> {i \in upd : r[i].activated /\ leds[i].tempActive},
                  expired |-> {i \in upd : r[i].expired},
                  idle |-> {i \in upd : ~Due(leds[i], now)},
                  dirty |-> Dirtied(upd, r),
                  showCalled |-> Dirtied(upd, r) /\ backend # "none" /\ can]

\* tick(now_ms) with the caller's counter at now.
TickBody(now, can, res) ==
  /\ clock' = now
  /\ op' = "tick"
  /\ ret' = Ok
  /\ request' = <<can, res>>
  /\ Journalled("tick", <<>>, now)
  /\ UNCHANGED <<calls, initialized, config, backend, snapshot, applied>>
  /\ IF ~initialized
     THEN /\ tickInfo' = NoTick
          /\ UNCHANGED <<lastStatus, lastTickMs, frameDirty, leds, frame, shown, obs>>
     ELSE TickLeds(now, {i \in Slots : i < config.ledCount},
                   [i \in {j \in Slots : j < config.ledCount} |->
                      updateLed(Ctx(leds[i], frame[i]), now, config.globalBrightness,
                                config.smoothStepMs)],
                   can, res)

\* tick(now_ms) as one of the MaxTicks ticks of a behaviour.
TickAt(now, can, res) ==
  /\ ticks < MaxTicks
  /\ ticks' = ticks + 1
  /\ TickBody(now, can, res)

\* tick(now_ms), called when the caller's counter has advanced by delta.  can
\* is what the backend answers to canShow, res the Status its show returns.
Tick(delta, can, res) == TickAt(Add32(clock, delta), can, res)

\* ------------------------------------------------------------------------
\* Inputs and specifications.
\* ------------------------------------------------------------------------

\* The backend's answers: to canShow, and the Status of show.
Busy == Status("RESOURCE_BUSY", 0)

Fault == Status("HARDWARE_FAULT", 0)

\* 0xFFFFFFFF - onMs of the BlinkFast defaults (near_wrap of the native test).
NearWrap == Sub32(kNever, U32(getModeDefaults("BlinkFast").onMs))

\* 0x80000000, the duration of half the counter range.
HalfRange == <<32768, 0>>

\* 0x80000001, the smallest duration above half the counter range.
OverHalf == <<32768, 1>>

\* Nothing but the engine is under observation.
Unobserved == applied = NotApplied /\ journal = NoJournal

\* The whole engine from construction.
Init == Constructed /\ clock = U32(0) /\ Unobserved

Lifecycle ==
  \/ \E cfg \in {make_config, [make_config EXCEPT !.ledCount = 0]} :
       \E outcome \in {"ok", "alloc_failed", "begin_failed"} : Begin(cfg, outcome, Fault)
  \/ End

Setters ==
  \/ \E m \in {"Solid", "BlinkFast", "Invalid"} : SetMode(0, m, getModeDefaults(m))
  \/ \E col \in {kColorRed} : SetColor(0, col) \/ SetSecondaryColor(0, col)
  \/ \E p \in {"Ready", "Invalid"} : SetPreset(0, p) \/ SetDefaultPreset(0, p)
  \/ \E d \in {U32(0), U32(200)} : SetTemporaryPreset(0, "Error", d)
  \/ \E level \in {128} : SetBrightness(0, level) \/ SetGlobalBrightness(level)

Ticking ==
  \E delta \in {U32(10), U32(210)} :
    \E b \in {<<TRUE, Ok>>, <<TRUE, Busy>>, <<TRUE, Fault>>, <<FALSE, Ok>>} :
      Tick(delta, b[1], b[2])

Next == Lifecycle \/ Setters \/ Ticking

Spec == Init /\ [][Next]_vars

\* One LED under presets, temporary overrides and manual setters.
InitOverride == Begun(make_config) /\ clock = NearWrap /\ Unobserved

OverridePresets == \E p \in {"Ready"} : SetPreset(0, p)

OverrideTemporary ==
  \E t \in {<<"Error", U32(200)>>, <<"Info", HalfRange>>, <<"Error", OverHalf>>} :
    SetTemporaryPreset(0, t[1], t[2])

OverrideTicking == \E delta \in {U32(10), U32(210)} : Tick(delta, TRUE, Ok)

NextOverride == OverridePresets \/ OverrideTemporary \/ OverrideTicking

SpecOverride == InitOverride /\ [][NextOverride]_vars

\* One LED under one temporary override and the manual setters.
InitManual == Begun(make_config) /\ clock = U32(0) /\ Unobserved

ManualTemporary == SetTemporaryPreset(0, "Error", U32(200))

ManualSetters ==
  \/ SetMode(0, "Dim", getModeDefaults("Dim"))
  \/ SetColor(0, kColorCyan)
  \/ SetSecondaryColor(0, kColorPurple)
  \/ SetBrightness(0, 128)

ManualTicking == \E delta \in {U32(10), U32(210)} : Tick(delta, TRUE, Ok)

NextManual == ManualTemporary \/ ManualSetters \/ ManualTicking

SpecManual == InitManual /\ [][NextManual]_vars

\* One LED in the simple blink modes, from a counter at 0 or just below the wrap.
InitBlink == Begun(make_config) /\ clock \in {U32(0), NearWrap} /\ Unobserved

BlinkSetMode ==
  \/ \E m \in {"BlinkFast", "BlinkSlow"} : SetMode(0, m, getModeDefaults(m))
  \/ SetMode(0, "BlinkFast", ModeParams(250, 300, 800, 800, 0, 255))

BlinkTicking == \E delta \in {0, 2, 124, 125, 126} : Tick(U32(delta), TRUE, Ok)

NextBlink == BlinkSetMode \/ BlinkTicking

SpecBlink == InitBlink /\ [][NextBlink]_vars

\* One LED in the fade modes.
InitFade == Begun(make_config) /\ clock \in {U32(0), NearWrap} /\ Unobserved

FadeSetMode ==
  \/ \E m \in {"FadeIn", "FadeOut"} : SetMode(0, m, getModeDefaults(m))
  \/ \E m \in {"FadeIn", "FadeOut"} : SetMode(0, m, ModeParams(1000, 500, 30, 30, 0, 255))

FadeTicking == \E delta \in {0, 10, 20, 105} : Tick(U32(delta), TRUE, Ok)

NextFade == FadeSetMode \/ FadeTicking

SpecFade == InitFade /\ [][NextFade]_vars

\* Two LEDs in the static modes, with a backend that may be busy or fail.
InitStatic == Begun([make_config EXCEPT !.ledCount = 2]) /\ clock = U32(0) /\ Unobserved

StaticSetMode ==
  \E t \in {<<0, "Off">>, <<0, "Solid">>, <<0, "Dim">>, <<1, "BlinkFast">>} :
    SetMode(t[1], t[2], getModeDefaults(t[2]))

StaticTemporary == SetTemporaryPreset(0, "Ready", U32(200))

StaticTicking ==
  \E t \in {<<10, TRUE, Ok>>, <<300, TRUE, Ok>>, <<10, TRUE, Busy>>, <<10, FALSE, Ok>>} :
    Tick(U32(t[1]), t[2], t[3])

NextStatic == StaticSetMode \/ StaticTemporary \/ StaticTicking

SpecStatic == InitStatic /\ [][NextStatic]_vars

\* One LED whose frame is handed to a backend that may be busy, not ready or
\* failing.
InitFrame == Begun(make_config) /\ clock = U32(0) /\ Unobserved

FrameSetters ==
  \/ SetPreset(0, "Ready")
  \/ SetMode(0, "BlinkFast", getModeDefaults("BlinkFast"))
  \/ SetColor(0, kColorRed)
  \/ SetGlobalBrightness(128)

FrameTicking ==
  \E delta \in {U32(10), U32(130)} :
    \E b \in {<<TRUE, Ok>>, <<TRUE, Busy>>, <<TRUE, Fault>>, <<FALSE, Ok>>} :
      Tick(delta, b[1], b[2])

NextFrame == FrameSetters \/ FrameTicking

SpecFrame == InitFrame /\ [][NextFrame]_vars

\* The configurations begin is given: the one of the native tests, the ends
\* of every checked range, the two the native test expects to be rejected, one
\* value outside each checked range and two with two fields out of range.
LowConfig ==
  [make_config EXCEPT !.dataPin = 0, !.ledCount = 1, !.rmtChannel = 0,
                      !.smoothStepMs = kMinSmoothStepMs]

HighConfig ==
  [make_config EXCEPT !.ledCount = kMaxLeds, !.colorOrder = "RGB", !.rmtChannel = 3,
                      !.smoothStepMs = kMaxSmoothStepMs]

BadOrderConfig == [make_config EXCEPT !.colorOrder = "Invalid"]

BadPin == 300

BadPinConfig == [make_config EXCEPT !.dataPin = BadPin]

OutOfRangeConfigs ==
  {[make_config EXCEPT !.dataPin = -1],
   [make_config EXCEPT !.ledCount = 0],
   [make_config EXCEPT !.ledCount = kMaxLeds + 1],
   [make_config EXCEPT !.rmtChannel = 4],
   [make_config EXCEPT !.smoothStepMs = kMinSmoothStepMs - 1],
   [make_config EXCEPT !.smoothStepMs = kMaxSmoothStepMs + 1],
   [make_config EXCEPT !.dataPin = -2, !.ledCount = kMaxLeds + 1],
   [make_config EXCEPT !.rmtChannel = 4, !.smoothStepMs = kMaxSmoothStepMs + 1]}

\* begin on a fresh, a running and an ended engine, with a backend that works
\* or fails.
InitConfig == Constructed /\ clock = U32(0) /\ Unobserved

ConfigBegin ==
  \/ \E cfg \in {make_config, LowConfig, HighConfig, BadOrderConfig, BadPinConfig} :
       Begin(cfg, "ok", Ok)
  \/ \E outcome \in {"alloc_failed", "begin_failed"} : Begin(make_config, outcome, Fault)
  \/ \E cfg \in OutOfRangeConfigs : Begin(cfg, "ok", Ok)

ConfigEnd == End

ConfigSetters == SetPreset(0, "Ready")

NextConfig == ConfigBegin \/ ConfigEnd \/ ConfigSetters

SpecConfig == InitConfig /\ [][NextConfig]_vars

\* The life of an engine: begin with a backend that works or fails, end,
\* every operation before, between and after them.
InitLifecycle == Constructed /\ clock = U32(0) /\ Unobserved

LifecycleBegin ==
  \E outcome \in {"ok", "alloc_failed", "begin_failed"} :
    Begin([make_config EXCEPT !.ledCount = 2], outcome, Fault)

LifecycleEnd == End

LifecycleSetters ==
  \/ SetMode(0, "Solid", getModeDefaults("Solid"))
  \/ SetColor(0, kColorRed)
  \/ SetSecondaryColor(0, kColorBlue)
  \/ SetPreset(0, "Ready")
  \/ SetDefaultPreset(1, "Error")
  \/ SetTemporaryPreset(0, "Error", U32(200))
  \/ SetBrightness(0, 128)
  \/ SetGlobalBrightness(128)

LifecycleSnapshot == GetLedSnapshot(0, TRUE)

LifecycleTicking == \E can \in BOOLEAN : Tick(U32(10), can, Ok)

NextLifecycle ==
  LifecycleBegin \/ LifecycleEnd \/ LifecycleSetters \/ LifecycleSnapshot
  \/ LifecycleTicking

SpecLifecycle == InitLifecycle /\ [][NextLifecycle]_vars

\* Two LEDs of ten, with calls for the first index past the configured ones
\* and with a mode outside the enumeration.
InitIndex == Begun([make_config EXCEPT !.ledCount = 2]) /\ clock = U32(0) /\ Unobserved

IndexSetters ==
  \/ SetPreset(0, "Ready")
  \/ SetTemporaryPreset(0, "Error", U32(200))
  \/ SetMode(1, "BlinkFast", getModeDefaults("BlinkFast"))

IndexInvalidMode == \E index \in {0, 2} : SetMode(index, "Invalid", DefaultParams)

IndexOutOfRange ==
  \E index \in {2} :
    \/ SetMode(index, "Solid", getModeDefaults("Solid"))
    \/ SetColor(index, kColorRed)
    \/ SetSecondaryColor(index, kColorBlue)
    \/ SetPreset(index, "Ready")
    \/ SetDefaultPreset(index, "Error")
    \/ SetTemporaryPreset(index, "Error", U32(200))
    \/ SetBrightness(index, 128)

IndexSnapshot ==
  \E t \in {<<1, TRUE>>, <<2, TRUE>>, <<2, FALSE>>} : GetLedSnapshot(t[1], t[2])

IndexTicking == Tick(U32(130), TRUE, Ok)

NextIndex ==
  IndexSetters \/ IndexInvalidMode \/ IndexOutOfRange \/ IndexSnapshot \/ IndexTicking

SpecIndex == InitIndex /\ [][NextIndex]_vars

\* One LED given presets, default presets and temporary presets, with values
\* that are not in the table and a duration of 0.
InitPreset == Begun(make_config) /\ clock = U32(0) /\ Unobserved

NextPreset ==
  \/ \E p \in {"Ready", "Invalid"} : SetPreset(0, p)
  \/ \E p \in {"Error", "Invalid"} : SetDefaultPreset(0, p)
  \/ \E t \in {<<"Info", U32(200)>>, <<"Info", U32(0)>>, <<"Invalid", U32(200)>>} :
       SetTemporaryPreset(0, t[1], t[2])
  \/ SetMode(0, "Solid", getModeDefaults("Solid"))
  \/ \E delta \in {U32(10), U32(210)} : Tick(delta, TRUE, Ok)

SpecPreset == InitPreset /\ [][NextPreset]_vars

\* One LED whose overrides are read back with getLedSnapshot between ticks,
\* the clock starting just before the 32-bit wrap.
InitSnapshot == Begun(make_config) /\ clock = NearWrap /\ Unobserved

NextSnapshot ==
  \/ \E d \in {U32(200), HalfRange} : SetTemporaryPreset(0, "Error", d)
  \/ SetPreset(0, "Ready")
  \/ GetLedSnapshot(0, TRUE)
  \/ \E delta \in {U32(10), U32(130), U32(210)} : Tick(delta, TRUE, Ok)

SpecSnapshot == InitSnapshot /\ [][NextSnapshot]_vars

\* The values of a colour channel, of the intensity, of the per-LED and of
\* the global brightness that refreshLedOutput is applied to.
ChannelSamples == {0, 1, 2, 37, 127, 128, 200, 255}
IntensitySamples == {0, 1, 45, 127, 128, 129, 255}
BrightnessSamples == {0, 1, 55, 128, 129, 255}
GlobalSamples == {0, 64, 128, 255}

\* scale8 is applied to every pair of bytes, refreshLedOutput to an LED with
\* sampled colours, intensity and brightness.
InitScale ==
  /\ Begun(make_config)
  /\ clock = U32(0)
  /\ journal = NoJournal
  /\ \/ \E v \in 0..255, k \in 0..255 :
          applied = [fn |-> "scale8", args |-> <<v, k>>, done |-> FALSE, result |-> <<>>]
     \/ \E c \in ChannelSamples, i \in IntensitySamples, b \in BrightnessSamples,
           g \in GlobalSamples, alt \in BOOLEAN :
          applied = [fn |-> "refreshLedOutput",
                     args |-> [color |-> <<c, 255 - c, 128>>,
                               altColor |-> <<255 - c, 37, c>>,
                               intensity |-> i, brightness |-> b,
                               globalBrightness |-> g, useAlt |-> alt],
                     done |-> FALSE, result |-> <<>>]

\* A pure function was applied: nothing of the engine changes.
Pure ==
  UNCHANGED <<initialized, config, lastStatus, lastTickMs, frameDirty, leds, frame,
              backend, shown, clock, ticks, calls, op, ret, request, snapshot,
              tickInfo, obs, journal>>

ApplyScale8 ==
  /\ applied.fn = "scale8"
  /\ ~applied.done
  /\ applied' = [applied EXCEPT
                   !.done = TRUE,
                   !.result = [out |-> scale8(applied.args[1], applied.args[2]),
                               sum |-> scale8Sum(applied.args[1], applied.args[2])]]
  /\ Pure

\* refreshLedOutput(index, intensity, useAlt) on an LED with the colours and
\* the brightness of the arguments, whose frame entry is black.
ApplyRefreshLedOutput ==
  /\ applied.fn = "refreshLedOutput"
  /\ ~applied.done
  /\ applied' = [applied EXCEPT
                   !.done = TRUE,
                   !.result =
                     refreshLedOutputWith(
                       Ctx([leds[0] EXCEPT !.color = applied.args.color,
                                           !.altColor = applied.args.altColor,
                                           !.brightness = applied.args.brightness],
                           frame[0]),
                       applied.args.intensity, applied.args.useAlt,
                       applied.args.globalBrightness)]
  /\ Pure

NextScale == ApplyScale8 \/ ApplyRefreshLedOutput

SpecScale == InitScale /\ [][NextScale]_vars

\* Parameters a caller may hand to setMode: every field at the wrong end
\* (period 0, on-time beyond the period, no rise or fall time, levels
\* swapped); a period of 1 with the largest on-time; the header's defaults.
ExtremeParams ==
  {ModeParams(0, 5, 0, 0, 200, 100), ModeParams(1, 65535, 0, 800, 255, 0),
   DefaultParams}

\* One LED given modes with such parameters, presets and overrides.
InitParams == Begun(make_config) /\ clock = U32(0) /\ Unobserved

NextParams ==
  \/ \E mode \in {"FadeIn", "FadeOut", "BlinkFast"}, params \in ExtremeParams :
       SetMode(0, mode, params)
  \/ SetPreset(0, "Ready")
  \/ SetTemporaryPreset(0, "Error", U32(200))
  \/ \E delta \in {U32(10), U32(210)} : Tick(delta, TRUE, Ok)

SpecParams == InitParams /\ [][NextParams]_vars

\* Deadlines at the start, in the middle and at the end of the counter's
\* range, and the true distances from a deadline to the time it is tested
\* at: behind it (negative) or past it, up to just under half the range.
Targets ==
  {<<0, 0>>, <<0, 65535>>, <<1, 0>>, <<32767, 65535>>, <<32768, 0>>,
   <<65535, 0>>, <<65535, 65436>>, <<65535, 65535>>}

Distances ==
  {-2147483647, -65536, -65535, -100, -1, 0, 1, 100, 65535, 65536, 2147483647}

\* The timestamp at the distance d from target, modulo 2^32.
Offset(target, d) ==
  IF d >= 0 THEN Add32(target, U32(d)) ELSE Sub32(target, U32(0 - d))

InitDeadline ==
  /\ Begun(make_config)
  /\ clock = U32(0)
  /\ journal = NoJournal
  /\ \E target \in Targets, d \in Distances :
       applied = [fn |-> "timeReached",
                  args |-> [now |-> Offset(target, d), target |-> target,
                            distance |-> d],
                  done |-> FALSE, result |-> <<>>]

ApplyTimeReached ==
  /\ applied.fn = "timeReached"
  /\ ~applied.done
  /\ applied' = [applied EXCEPT
                   !.done = TRUE,
                   !.result = [reached |-> timeReached(applied.args.now,
                                                       applied.args.target)]]
  /\ Pure

NextDeadline == ApplyTimeReached

SpecDeadline == InitDeadline /\ [][NextDeadline]_vars

\* Two runs of one engine program.  The first run, with a backend that takes
\* every frame, is recorded call by call; then a second object is begun with
\* the same configuration and given the same calls and the same tick
\* timestamps, its backend answering as it likes.
InitReplay ==
  /\ Begun(make_config)
  /\ clock = U32(0)
  /\ applied = NotApplied
  /\ journal = [NoJournal EXCEPT !.mode = "record"]

ReplaySetters ==
  \/ SetMode(0, "BlinkFast", getModeDefaults("BlinkFast"))
  \/ SetTemporaryPreset(0, "Error", U32(200))

ReplayTicking ==
  \E b \in {<<TRUE, Ok>>, <<TRUE, Busy>>, <<TRUE, Fault>>, <<FALSE, Ok>>} :
    /\ journal.mode = "record" => b = <<TRUE, Ok>>
    /\ Tick(U32(130), b[1], b[2])

\* The first run ends; a second object is constructed and begun.
Restart ==
  /\ journal.mode = "record"
  /\ journal' = [journal EXCEPT !.mode = "replay", !.leds = leds, !.frame = frame]
  /\ initialized' = TRUE
  /\ config' = make_config
  /\ lastStatus' = Ok
  /\ lastTickMs' = U32(0)
  /\ frameDirty' = TRUE
  /\ leds' = [i \in Slots |-> LedState(i)]
  /\ frame' = [i \in Slots |-> kColorOff]
  /\ backend' = "live"
  /\ shown' = [i \in Slots |-> kColorOff]
  /\ clock' = U32(0)
  /\ ticks' = 0
  /\ calls' = 0
  /\ op' = "begin"
  /\ ret' = Ok
  /\ request' = <<make_config, "ok">>
  /\ snapshot' = LedSnapshot
  /\ tickInfo' = NoTick
  /\ obs' = [i \in Slots |-> ObsInit(LedState(i))]
  /\ UNCHANGED applied

NextReplay == ReplaySetters \/ ReplayTicking \/ Restart

SpecReplay == InitReplay /\ [][NextReplay]_vars

\* Two LEDs side by side: LED 0 flickers and gets an override, LED 1 blinks
\* and changes colour, and the global brightness is halved.
InitIndependent ==
  Begun([make_config EXCEPT !.ledCount = 2]) /\ clock = U32(0) /\ Unobserved

NextIndependent ==
  \/ SetMode(0, "FlickerCandle", getModeDefaults("FlickerCandle"))
  \/ SetTemporaryPreset(0, "Error", U32(200))
  \/ SetMode(1, "BlinkFast", getModeDefaults("BlinkFast"))
  \/ SetColor(1, kColorRed)
  \/ SetGlobalBrightness(128)
  \/ \E delta \in {U32(40), U32(130)} : Tick(delta, TRUE, Ok)

SpecIndependent == InitIndependent /\ [][NextIndependent]_vars

\* The modes that step through a table, and the pulse family.
PatternModes == {"DoubleBlink", "TripleBlink", "Beacon", "Strobe", "Heartbeat", "Alternate"}

PulseModes == {"PulseSoft", "PulseSharp", "Breathing", "Throb"}

\* One LED is given a mode with its default parameters at time 0 and is then
\* evaluated again and again, each time at the moment it is due.  args.n is
\* the number of evaluations so far, args.now the time of the last one, and
\* result the LED and its frame entry.
InitCycle ==
  /\ Begun(make_config)
  /\ clock = U32(0)
  /\ journal = NoJournal
  /\ \E mode \in PatternModes \cup PulseModes :
       applied = [fn |-> "updateLed",
                  args |-> [mode |-> mode, n |-> 0, now |-> U32(0)],
                  done |-> FALSE,
                  result |-> Ctx(setModeInternal([leds[0] EXCEPT !.currentPreset = "Off"],
                                                 mode, getModeDefaults(mode), lastTickMs),
                                 frame[0])]

\* updateLed(0, now_ms) with now_ms the LED's own deadline.
Reevaluate ==
  /\ applied.fn = "updateLed"
  /\ applied.args.n < MaxEvals
  /\ applied' = [applied EXCEPT
                   !.args = [@ EXCEPT !.n = @ + 1,
                                      !.now = applied.result.led.nextUpdateMs],
                   !.done = TRUE,
                   !.result = updateLed(Ctx(applied.result.led, applied.result.out),
                                        applied.result.led.nextUpdateMs,
                                        config.globalBrightness, config.smoothStepMs)]
  /\ Pure

NextCycle == Reevaluate

SpecCycle == InitCycle /\ [][NextCycle]_vars

\* Endpoints, spans and positions lerpU8 is applied to: each endpoint pair
\* in both orders, a span of 0, and two positions pos[1] <= pos[2] <= span.
LevelSamples == {0, 20, 100, 255}

SpanSamples == {0, 1, 100, 400, 1000}

PositionSamples == {0, 1, 20, 50, 100, 399, 400, 1000}

InitLerp ==
  /\ Begun(make_config)
  /\ clock = U32(0)
  /\ journal = NoJournal
  /\ \E a \in LevelSamples, b \in LevelSamples, span \in SpanSamples,
        p \in PositionSamples, q \in PositionSamples :
       /\ p <= q
       /\ span > 0 => q <= span
       /\ applied = [fn |-> "lerpU8",
                     args |-> [minVal |-> a, maxVal |-> b, pos |-> <<p, q>>,
                               span |-> span],
                     done |-> FALSE, result |-> <<>>]

\* lerpU8 at the two positions.
ApplyLerpU8 ==
  /\ applied.fn = "lerpU8"
  /\ ~applied.done
  /\ applied' = [applied EXCEPT
                   !.done = TRUE,
                   !.result = <<lerpU8(applied.args.minVal, applied.args.maxVal,
                                       applied.args.pos[1], applied.args.span),
                                lerpU8(applied.args.minVal, applied.args.maxVal,
                                       applied.args.pos[2], applied.args.span)>>]
  /\ Pure

NextLerp == ApplyLerpU8

SpecLerp == InitLerp /\ [][NextLerp]_vars

\* 0xFFFFFFD0, a tick time 48 ms before the counter wraps.
LateTick == <<65535, 65488>>

\* An LED of any index, seeded by begin and set to FlickerCandle or Glitch,
\* is evaluated any number of times by ticks with one and the same time, so
\* that the states met are all those the generator runs through.
InitFlicker ==
  /\ Begun([make_config EXCEPT !.ledCount = kMaxLeds])
  /\ clock = U32(0)
  /\ journal = NoJournal
  /\ \E index \in Slots, mode \in {"FlickerCandle", "Glitch"}, now \in {U32(1000), LateTick} :
       applied = [fn |-> "EvalFlicker",
                  args |-> [mode |-> mode, now |-> now],
                  done |-> FALSE,
                  result |-> setModeInternal([leds[index] EXCEPT !.currentPreset = "Off"],
                                             mode, getModeDefaults(mode), lastTickMs)]

\* updateLed, the case FlickerCandle / Glitch, at the time args.now.
ApplyEvalFlicker ==
  /\ applied.fn = "EvalFlicker"
  /\ applied' = [applied EXCEPT
                   !.done = TRUE,
                   !.result = EvalFlicker(applied.result, applied.args.now)]
  /\ Pure

NextFlicker == ApplyEvalFlicker

SpecFlicker == InitFlicker /\ [][NextFlicker]_vars

\* 0x20000000, an eighth of the counter range, and 0x40000000, a quarter.
Eighth == <<8192, 0>>

Quarter == <<16384, 0>>

\* One LED given overrides while tick is called for ever, each time an
\* eighth of the counter range after the last: the counter runs through
\* 0x1FFFFFFF, 0x3FFFFFFF, ..., 0xFFFFFFFF and round again.  The ticks are not
\* counted, the calls are.
InitExpiry == Begun(make_config) /\ clock = Sub32(Eighth, U32(1)) /\ Unobserved

NextExpiry ==
  \/ \E d \in {U32(200), Quarter} : SetTemporaryPreset(0, "Error", d)
  \/ SetMode(0, "BlinkFast", getModeDefaults("BlinkFast"))
  \/ ticks' = ticks /\ TickBody(Add32(clock, Eighth), TRUE, Ok)

\* tick keeps being called: the step that moves the caller's counter on by
\* an eighth of the range, which only a tick takes and which is always
\* possible, is taken again and again (weak fairness).
SpecExpiry ==
  /\ InitExpiry
  /\ [][NextExpiry]_vars
  /\ WF_clock(clock' = Add32(clock, Eighth))

\* ------------------------------------------------------------------------
\* Properties.
\* ------------------------------------------------------------------------

\* The resume slot of LED 0.
ResumeSlot ==
  <<leds[0].resumeMode, leds[0].resumeParams, leds[0].resumeColor,
    leds[0].resumeAltColor, leds[0].resumeBrightness, leds[0].resumePreset>>

\* The step is a call of tick.
TickStep == op' = "tick" /\ ticks' = ticks + 1

\* C1 (amended): temporary override apply-and-revert for a duration D with
\* 0 < D <= 0x80000000.  On the tick after setTemporaryPreset(0, P2, D) the
\* snapshot reports P2's preset, mode and colours with tempActive true, and the
\* expiry is that tick's time plus D; at every later tick before the expiry
\* the override stays; at the first tick at or after the expiry LED 0 has the
\* mode, parameters, colours, brightness and preset it had before the
\* override, with tempActive false; and tempActive only ever becomes true on
\* a tick that finds an override pending.
C1_ApplyAndRevert ==
  [][/\ (TickStep /\ leds[0].tempPending
           /\ (leds[0].tempDurationMs[1] < 32768 \/ leds[0].tempDurationMs = HalfRange))
        => /\ getLedSnapshot(0)'.tempActive
           /\ getLedSnapshot(0)'.preset = leds[0].tempPreset
           /\ getLedSnapshot(0)'.mode = kPresets[findPreset(leds[0].tempPreset)].mode
           /\ getLedSnapshot(0)'.color = kPresets[findPreset(leds[0].tempPreset)].primary
           /\ getLedSnapshot(0)'.altColor
                = kPresets[findPreset(leds[0].tempPreset)].secondary
           /\ leds'[0].tempUntilMs = Add32(clock', leds[0].tempDurationMs)
     /\ (TickStep /\ leds[0].tempActive /\ ~leds[0].tempPending
           /\ Sub32(clock', leds[0].tempUntilMs)[1] >= 32768)
        => /\ leds'[0].tempActive
           /\ leds'[0].currentPreset = leds[0].currentPreset
           /\ leds'[0].tempUntilMs = leds[0].tempUntilMs
     /\ (TickStep /\ leds[0].tempActive /\ ~leds[0].tempPending
           /\ Sub32(clock', leds[0].tempUntilMs)[1] < 32768)
        => /\ ~getLedSnapshot(0)'.tempActive
           /\ Settings(leds'[0]) = obs[0].stable
     /\ (~leds[0].tempActive /\ leds'[0].tempActive)
        => (TickStep /\ leds[0].tempPending)
    ]_vars

\* C1, reached: a tick has ended an override that ran over preset Ready, and
\* LED 0 reports Ready again.
C1_Witness ==
  /\ op = "tick"
  /\ 0 \in tickInfo.expired
  /\ 0 \notin tickInfo.activated
  /\ obs[0].stable.preset = "Ready"
  /\ getLedSnapshot(0).preset = "Ready"
  /\ ~getLedSnapshot(0).tempActive

\* C1 as stated, for any accepted duration: the tick after setTemporaryPreset
\* leaves the override's preset reported with tempActive true.
C1_AnyDuration ==
  [][(TickStep /\ leds[0].tempPending)
       => /\ getLedSnapshot(0)'.tempActive
          /\ getLedSnapshot(0)'.preset = leds[0].tempPreset]_vars

\* C2 as stated, for the cycle k = 0: after every tick of LED 0 in a simple
\* blink mode that comes less than one period after the mode's first
\* evaluation, the reported intensity is 255 while the time since that
\* evaluation is below the on-duration, and 0 from the on-duration on.
C2_BlinkFirstCycle ==
  (/\ op = "tick"
   /\ leds[0].mode \in {"BlinkSlow", "BlinkFast"}
   /\ obs[0].firstEval # <<>>
   /\ Sub32(lastTickMs, obs[0].firstEval)[1] = 0
   /\ Sub32(lastTickMs, obs[0].firstEval)[2] < leds[0].params.periodMs)
  => getLedSnapshot(0).intensity
       = IF Sub32(lastTickMs, obs[0].firstEval)[2] < leds[0].params.onMs
         THEN 255 ELSE 0

\* C3 as stated: a blink mode set right after begin, before any tick, is
\* evaluated on the first tick whatever its timestamp, so that the snapshot
\* after that tick reports intensity 255.
C3_FirstTickEvaluates ==
  (op = "tick" /\ ticks = 1 /\ calls = 1
     /\ leds[0].mode \in {"BlinkSlow", "BlinkFast"})
  => (0 \in tickInfo.evaluated /\ getLedSnapshot(0).intensity = 255)

\* C4 as stated: the deadline stored by an evaluation of a repeating mode or
\* of an unfinished fade is never the 'never' sentinel.
C4_DeadlineIsNotNever ==
  (/\ op = "tick"
   /\ 0 \in tickInfo.evaluated
   /\ \/ leds[0].mode \in {"BlinkSlow", "BlinkFast"}
      \/ leds[0].mode = "FadeIn"
           /\ ~Ge32(Sub32(lastTickMs, leds[0].modeStartMs), leds[0].params.riseMs)
      \/ leds[0].mode = "FadeOut"
           /\ ~Ge32(Sub32(lastTickMs, leds[0].modeStartMs), leds[0].params.fallMs))
  => leds[0].nextUpdateMs # kNever

\* C5 as stated: for LED 0 in FadeIn the intensity after a tick is not below
\* the intensity after the tick before it; and after every tick at which the
\* time since the mode start is at least the rise duration the intensity is
\* 255 and the deadline is 'never'.
C5_FadeInOneShot ==
  [][(TickStep /\ leds[0].mode = "FadeIn")
       => /\ (op = "tick" /\ ~leds[0].tempPending)
               => leds'[0].intensity >= leds[0].intensity
          /\ Ge32(Sub32(clock', leds[0].modeStartMs), leds[0].params.riseMs)
               => (leds'[0].intensity = 255 /\ leds'[0].nextUpdateMs = kNever)
    ]_vars

\* C6 as stated: for LED 0 in FadeOut the intensity after a tick is 255 at
\* elapsed time 0, strictly between 200 and 255 after 20 ms of the default
\* fall of 1000 ms, and 0 at every tick at or after the fall duration.
C6_FadeOutMirrors ==
  (op = "tick" /\ leds[0].mode = "FadeOut")
  => /\ Sub32(lastTickMs, leds[0].modeStartMs) = U32(0)
          => getLedSnapshot(0).intensity = 255
     /\ (leds[0].params.fallMs = 1000
           /\ Sub32(lastTickMs, leds[0].modeStartMs) = U32(20))
          => (getLedSnapshot(0).intensity > 200 /\ getLedSnapshot(0).intensity < 255)
     /\ Ge32(Sub32(lastTickMs, leds[0].modeStartMs), leds[0].params.fallMs)
          => getLedSnapshot(0).intensity = 0

\* C7: overrides never nest.  A tick that finds an override pending while one
\* is active leaves the resume slot as it was, sets the expiry from that
\* tick's time and the new duration, and the override that is then running
\* is the new preset; a tick that ends an override leaves LED 0 with the
\* settings it had before the first override was activated.
C7_NoNesting ==
  [][/\ (TickStep /\ leds[0].tempPending /\ leds[0].tempActive)
        => /\ ResumeSlot' = ResumeSlot
           /\ leds'[0].tempUntilMs = Add32(clock', leds[0].tempDurationMs)
           /\ leds'[0].tempActive => leds'[0].currentPreset = leds[0].tempPreset
     /\ (TickStep /\ leds[0].tempActive /\ ~leds'[0].tempActive)
        => Settings(leds'[0]) = obs[0].stable
    ]_vars

\* C7, reached: a tick has ended an override that was activated over an
\* active one.
C7_Witness ==
  /\ op = "tick"
  /\ 0 \in tickInfo.expired
  /\ 0 \notin tickInfo.activated
  /\ obs[0].depth >= 2
  /\ ~leds[0].tempActive

\* C8: a successful setMode, setColor, setSecondaryColor or setBrightness
\* made while an override is active leaves tempActive true and the expiry and
\* the resume slot untouched; the tick that ends the override leaves LED 0
\* with the settings it had before the override, without the manual change.
C8_ManualKeepsOverride ==
  [][/\ (/\ op' \in {"setMode", "setColor", "setSecondaryColor", "setBrightness"}
         /\ calls' = calls + 1 /\ ret' = Ok /\ leds[0].tempActive)
        => /\ leds'[0].tempActive
           /\ leds'[0].tempUntilMs = leds[0].tempUntilMs
           /\ ResumeSlot' = ResumeSlot
     /\ (TickStep /\ leds[0].tempActive /\ ~leds'[0].tempActive)
        => Settings(leds'[0]) = obs[0].stable
    ]_vars

\* C8, reached: a tick has ended an override during which a manual setter
\* was applied.
C8_Witness ==
  /\ op = "tick"
  /\ 0 \in tickInfo.expired
  /\ obs[0].manual
  /\ ~leds[0].tempActive
  /\ Settings(leds[0]) = obs[0].stable

\* C9: setTemporaryPreset is deferred.  A successful call changes nothing of
\* LED 0 but the override's preset, its duration and the pending mark, and
\* leaves the frame and the dirty mark alone; the next tick activates it,
\* clearing the pending mark and setting the expiry, whether or not the LED's
\* own deadline has been reached.
C9_Deferred ==
  [][/\ (op' = "setTemporaryPreset" /\ calls' = calls + 1 /\ ret' = Ok)
        => /\ leds' = [leds EXCEPT ![0].tempPreset = leds'[0].tempPreset,
                                   ![0].tempDurationMs = leds'[0].tempDurationMs,
                                   ![0].tempPending = TRUE]
           /\ leds'[0].tempDurationMs # U32(0)
           /\ frame' = frame
           /\ frameDirty' = frameDirty
     /\ (TickStep /\ leds[0].tempPending)
        => /\ ~leds'[0].tempPending
           /\ leds'[0].tempUntilMs = Add32(clock', leds[0].tempDurationMs)
           /\ ResumeSlot' = IF leds[0].tempActive THEN ResumeSlot
                            ELSE <<leds[0].mode, leds[0].params, leds[0].color,
                                   leds[0].altColor, leds[0].brightness,
                                   leds[0].currentPreset>>
    ]_vars

\* C9, reached: a tick has activated an override on an LED whose own deadline
\* was not reached at that tick.
C9_Witness ==
  /\ op = "tick"
  /\ 0 \in tickInfo.activated
  /\ 0 \in tickInfo.idle
  /\ leds[0].tempActive

\* C10: static modes stop scheduling.  A tick that evaluates an LED in Off,
\* Solid or Dim leaves its intensity 0, 255 or 48 and its deadline 'never';
\* a tick that finds a static LED with deadline 'never', no override pending
\* and none expiring leaves its intensity, deadline and frame entry as they
\* were; and a tick that finds every configured LED so, with the frame
\* transmitted, does not call the backend's show.
C10_StaticStopsScheduling ==
  [][TickStep =>
       /\ \A i \in {j \in Slots : j < config.ledCount} :
            /\ (/\ leds[i].mode \in {"Off", "Solid", "Dim"}
                /\ ~leds[i].tempPending /\ ~leds[i].tempActive
                /\ leds[i].nextUpdateMs # kNever
                /\ Sub32(clock', leds[i].nextUpdateMs)[1] < 32768)
               => /\ leds'[i].intensity = CASE leds[i].mode = "Off" -> 0
                                            [] leds[i].mode = "Solid" -> 255
                                            [] OTHER -> 48
                  /\ leds'[i].nextUpdateMs = kNever
            /\ (/\ leds[i].mode \in {"Off", "Solid", "Dim"}
                /\ leds[i].nextUpdateMs = kNever
                /\ ~leds[i].tempPending
                /\ ~(leds[i].tempActive
                       /\ Sub32(clock', leds[i].tempUntilMs)[1] < 32768))
               => /\ leds'[i].intensity = leds[i].intensity
                  /\ leds'[i].nextUpdateMs = kNever
                  /\ frame'[i] = frame[i]
       /\ (/\ ~frameDirty
           /\ \A i \in {j \in Slots : j < config.ledCount} :
                /\ leds[i].mode \in {"Off", "Solid", "Dim"}
                /\ leds[i].nextUpdateMs = kNever
                /\ ~leds[i].tempPending
                /\ ~(leds[i].tempActive
                       /\ Sub32(clock', leds[i].tempUntilMs)[1] < 32768))
          => (~tickInfo'.showCalled /\ shown' = shown /\ ~frameDirty')
    ]_vars

\* C10, reached: a tick found both LEDs static with nothing to evaluate, LED 0
\* in Dim at level 48 and LED 1 in Off, the frame transmitted, and did not
\* call show.
C10_Witness ==
  /\ op = "tick"
  /\ tickInfo.evaluated = {} /\ tickInfo.activated = {} /\ tickInfo.expired = {}
  /\ \A i \in {0, 1} : leds[i].mode \in {"Off", "Solid", "Dim"}
                         /\ leds[i].nextUpdateMs = kNever
  /\ leds[0].mode = "Dim" /\ getLedSnapshot(0).intensity = kDimLevel
  /\ leds[1].mode = "Off" /\ getLedSnapshot(1).intensity = 0
  /\ ~tickInfo.showCalled /\ ~frameDirty /\ shown = frame

\* The step is a call of one of the setters.
SetterStep ==
  /\ calls' = calls + 1
  /\ op' \in {"setMode", "setColor", "setSecondaryColor", "setPreset",
             "setDefaultPreset", "setTemporaryPreset", "setBrightness",
             "setGlobalBrightness"}

\* C11: dirty marking is change-driven.  A setter, which recomputes an LED's
\* output at most once, leaves the dirty flag set exactly when it was set
\* before or the frame entry it computed differs from the stored one; a tick
\* has the flag set after its loop whenever it was set before or the frame
\* has changed, and exactly then when no override was activated or expired
\* in it (one recomputation per LED); and tick calls the backend's show
\* exactly when the flag is set after the loop and canShow() is true, the
\* backend keeping the frame it had when show is not called.
C11_DirtyOnChange ==
  [][/\ SetterStep => frameDirty' = (frameDirty \/ frame' # frame)
     /\ (TickStep /\ initialized) =>
          /\ (frameDirty \/ frame' # frame) => tickInfo'.dirty
          /\ (tickInfo'.activated = {} /\ tickInfo'.expired = {}) =>
               tickInfo'.dirty = (frameDirty \/ frame' # frame)
          /\ tickInfo'.showCalled = (tickInfo'.dirty /\ request'[1])
          /\ ~tickInfo'.showCalled => shown' = shown
          /\ ~tickInfo'.dirty => ~frameDirty']_vars

\* A tick with a ready backend evaluated the LED of a clean frame, found the
\* colour already stored in its frame entry and did not call show.
C11_Witness ==
  /\ op = "tick"
  /\ 0 \in tickInfo.evaluated
  /\ leds[0].intensity = 255
  /\ request[1]
  /\ ~tickInfo.dirty
  /\ ~tickInfo.showCalled

\* C12: transmission outcome handling in tick.  After the loop over the LEDs a
\* dirty frame is handed to a ready backend; when show returns OK the dirty
\* flag is cleared, the backend has the frame and nothing is recorded; when
\* it returns busy the flag stays set and nothing is recorded; when it
\* returns any other error the flag stays set and that error is the last
\* status; after a show that did not succeed the backend still has the frame
\* of the last success (the tick made no second attempt); and a tick that
\* does not call show records nothing and leaves the flag as the loop set it.
C12_TransmitOutcome ==
  [][(TickStep /\ initialized) =>
       /\ (tickInfo'.dirty /\ request'[1]) => tickInfo'.showCalled
       /\ (tickInfo'.showCalled /\ request'[2].code = "OK") =>
            ~frameDirty' /\ shown' = frame' /\ lastStatus' = lastStatus
       /\ (tickInfo'.showCalled /\ request'[2].code = "RESOURCE_BUSY") =>
            frameDirty' /\ shown' = shown /\ lastStatus' = lastStatus
       /\ (tickInfo'.showCalled /\ request'[2].code \notin {"OK", "RESOURCE_BUSY"}) =>
            frameDirty' /\ shown' = shown /\ lastStatus' = request'[2]
       /\ ~tickInfo'.showCalled =>
            frameDirty' = tickInfo'.dirty /\ shown' = shown /\ lastStatus' = lastStatus]_vars

\* A tick handed a changed frame to a backend whose show failed: the error
\* is the last status, the frame is still dirty and was not delivered.
C12_Witness ==
  /\ op = "tick"
  /\ tickInfo.showCalled
  /\ request[2] = Fault
  /\ lastStatus = Fault
  /\ frameDirty
  /\ shown # frame

\* C13: a busy backend is retried until delivered.  Between two calls on an
\* initialized engine a set dirty flag stays set unless the call is a tick
\* that finds the backend ready and whose show succeeds; that tick, the
\* first of its kind, clears the flag and leaves the backend with the frame
\* as it is after the tick, so no frame change made meanwhile is lost.
C13_RetriedUntilDelivered ==
  [][(initialized /\ initialized' /\ frameDirty) =>
       IF TickStep /\ request'[1] /\ request'[2].code = "OK"
       THEN ~frameDirty' /\ shown' = frame'
       ELSE frameDirty' /\ shown' = shown]_vars

\* A tick delivered a lit frame after an earlier tick's show had failed.
C13_Witness ==
  /\ op = "tick"
  /\ request = <<TRUE, Ok>>
  /\ tickInfo.showCalled
  /\ lastStatus = Fault
  /\ ~frameDirty
  /\ frame[0] # kColorOff
  /\ shown = frame

\* The step is a call of begin.
BeginStep == op' = "begin" /\ calls' = calls + 1

\* C14: begin rejects a configuration whose colorOrder is not a value of
\* ColorOrder (99) and one whose dataPin is 300: it returns INVALID_CONFIG
\* and the engine is left not initialized.
C14_RejectsOrderAndPin ==
  [][(BeginStep /\ (request'[1].colorOrder \notin ColorOrders
                     \/ request'[1].dataPin = BadPin)) =>
       (ret'.code = "INVALID_CONFIG" /\ ~initialized')]_vars

C16_NotInitializedAfterError ==
  [][(BeginStep /\ ret' # Ok) => ~initialized']_vars

\* C16 (amended): begin fails atomically.  When begin returns INVALID_CONFIG
\* for a field out of range, the engine is as it was before the call but for
\* the last status: a running engine stays initialized with its old
\* configuration, LED states, frame and backend, a fresh or ended one stays
\* not initialized.  When the backend cannot be allocated or its begin fails,
\* the engine is not initialized, has no backend, stores the new
\* configuration, and every LED state and frame entry is reset, whether the
\* engine was fresh or running.
C16_FailsAtomically ==
  [][(BeginStep /\ ret' # Ok) =>
       /\ lastStatus' = ret'
       /\ IF ret'.code = "INVALID_CONFIG"
          THEN UNCHANGED <<initialized, config, leds, frame, frameDirty, backend,
                          lastTickMs, shown>>
          ELSE /\ ~initialized'
               /\ backend' = "none"
               /\ config' = request'[1]
               /\ leds' = [i \in Slots |-> LedState(i)]
               /\ frame' = [i \in Slots |-> kColorOff]
               /\ ~frameDirty'
               /\ lastTickMs' = U32(0)]_vars

\* begin with a field out of range has returned its error on a running
\* engine, which still runs the preset it was given.
C16_Witness ==
  /\ op = "begin"
  /\ ret.code = "INVALID_CONFIG"
  /\ initialized
  /\ backend = "live"
  /\ config = make_config
  /\ leds[0].currentPreset = "Ready"
  /\ leds[0].mode = "Solid"

\* C17: the state after a successful begin.  Every LED slot has mode Off,
\* current and default preset Off, intensity 0, brightness 255 and neither a
\* pending nor an active override, every frame entry is black and the frame
\* is dirty; and while the LEDs are Off with no override pending and the
\* black frame is dirty, as they stay until a setter lights one, a tick that
\* finds the backend ready hands over that black frame and clears the flag.
C17_InitialState ==
  [][/\ (BeginStep /\ ret' = Ok) =>
          /\ initialized'
          /\ frameDirty'
          /\ \A i \in Slots :
               /\ leds'[i].mode = "Off"
               /\ leds'[i].currentPreset = "Off"
               /\ leds'[i].defaultPreset = "Off"
               /\ leds'[i].intensity = 0
               /\ leds'[i].brightness = 255
               /\ ~leds'[i].tempPending
               /\ ~leds'[i].tempActive
               /\ frame'[i] = <<0, 0, 0>>
     /\ (/\ TickStep
         /\ initialized
         /\ frameDirty
         /\ \A i \in Slots : /\ leds[i].mode = "Off"
                              /\ ~leds[i].tempPending
                              /\ frame[i] = <<0, 0, 0>>
         /\ request'[1]
         /\ request'[2] = Ok) =>
          /\ tickInfo'.showCalled
          /\ shown' = [i \in Slots |-> <<0, 0, 0>>]
          /\ frame' = shown'
          /\ ~frameDirty']_vars

\* After begin and nothing else but ticks, the second tick, the first to
\* find the backend ready, has handed over the black frame.
C17_Witness ==
  /\ op = "tick"
  /\ calls = 1
  /\ ticks = 2
  /\ initialized
  /\ tickInfo.showCalled
  /\ ~frameDirty
  /\ shown = [i \in Slots |-> <<0, 0, 0>>]

\* The step is a call of getLedSnapshot.
SnapshotStep == op' = "getLedSnapshot" /\ calls' = calls + 1

\* The step is a call of end.
EndStep == op' = "end" /\ calls' = calls + 1

\* C18: operations on an engine that is not initialized.  Every setter and
\* getLedSnapshot returns NOT_INITIALIZED and changes neither an LED state
\* nor the frame, the dirty flag, the configuration or the caller's
\* snapshot; tick changes nothing of the engine and does not call the
\* backend; end leaves the engine not initialized from any state, and as it
\* is when it was not initialized already; and a begin that returns OK
\* leaves the engine initialized, where no setter or getLedSnapshot returns
\* NOT_INITIALIZED.
C18_NotInitialized ==
  [][/\ (~initialized /\ (SetterStep \/ SnapshotStep)) =>
          /\ ret' = Status("NOT_INITIALIZED", 0)
          /\ UNCHANGED <<initialized, config, lastTickMs, frameDirty, leds, frame,
                         backend, shown, snapshot>>
     /\ (~initialized /\ TickStep) =>
          /\ ~tickInfo'.showCalled
          /\ UNCHANGED <<initialized, config, lastStatus, lastTickMs, frameDirty, leds,
                         frame, backend, shown>>
     /\ EndStep => ~initialized' /\ backend' = "none"
     /\ (~initialized /\ EndStep) =>
          UNCHANGED <<config, lastStatus, lastTickMs, frameDirty, leds, frame, backend,
                      shown>>
     /\ (BeginStep /\ ret' = Ok) => initialized'
     /\ (initialized /\ (SetterStep \/ SnapshotStep)) =>
          ret'.code # "NOT_INITIALIZED"]_vars

\* getLedSnapshot has returned NOT_INITIALIZED on an engine that was begun
\* and then ended.
C18_Witness ==
  /\ op = "getLedSnapshot"
  /\ ret = Status("NOT_INITIALIZED", 0)
  /\ ~initialized
  /\ config # DefaultConfig
  /\ lastStatus = Ok

\* The step is a call of one of the per-LED setters.
LedSetterStep == SetterStep /\ op' # "setGlobalBrightness"

\* C19 (as stated): every per-LED setter and getLedSnapshot called with
\* index >= ledCount returns INVALID_CONFIG with the index as detail.
C19_IndexAsDetail ==
  [][(initialized /\ (LedSetterStep \/ SnapshotStep)
      /\ request'[1] >= config.ledCount) =>
       ret' = Status("INVALID_CONFIG", request'[1])]_vars

\* C19 (amended): index validation on an initialized engine.  Every per-LED
\* setter called with index >= ledCount, whatever its other arguments, and
\* getLedSnapshot called with index >= ledCount and a non-null out return
\* INVALID_CONFIG with the index as detail; getLedSnapshot with a null out
\* returns INVALID_CONFIG with detail 0 whatever the index.  None of these
\* calls modifies an LED state, a frame entry, the dirty flag or the
\* caller's snapshot.  A tick evaluates, activates and expires only LEDs
\* with index < ledCount and leaves the state and frame entry of every
\* other slot as they are.
C19_IndexValidation ==
  [][/\ (initialized /\ LedSetterStep /\ request'[1] >= config.ledCount) =>
          /\ ret' = Status("INVALID_CONFIG", request'[1])
          /\ UNCHANGED <<leds, frame, frameDirty, snapshot>>
     /\ (initialized /\ SnapshotStep /\ request'[1] >= config.ledCount) =>
          /\ ret' = Status("INVALID_CONFIG", IF request'[2] THEN request'[1] ELSE 0)
          /\ UNCHANGED <<leds, frame, frameDirty, snapshot>>
     /\ (initialized /\ TickStep) =>
          /\ (tickInfo'.evaluated \cup tickInfo'.activated \cup tickInfo'.expired)
               \subseteq 0 .. (config.ledCount - 1)
          /\ \A i \in Slots : i >= config.ledCount =>
               (leds'[i] = leds[i] /\ frame'[i] = frame[i])]_vars

\* A per-LED setter for the first slot past the configured LEDs was rejected
\* with that index, and a later tick that evaluated LED 1 left the slot and
\* its frame entry as begin had reset them.
C19_Witness ==
  /\ op = "tick"
  /\ 1 \in tickInfo.evaluated
  /\ lastStatus = Status("INVALID_CONFIG", 2)
  /\ leds[2] = LedState(2)
  /\ frame[2] = kColorOff

\* C20: unrecognized modes never reach the scheduler.  setMode with a value
\* outside the Mode enumeration returns INVALID_CONFIG on an initialized
\* engine and leaves every LED, the frame and the dirty flag unchanged; and
\* after every step the mode of each LED, and the mode an override's expiry
\* will restore, is a member of the enumeration.
C20_ModesAreValid ==
  [][/\ (initialized /\ SetterStep /\ op' = "setMode" /\ request'[2] \notin Modes) =>
          /\ ret'.code = "INVALID_CONFIG"
          /\ UNCHANGED <<leds, frame, frameDirty>>
     /\ \A i \in Slots : leds'[i].mode \in Modes /\ leds'[i].resumeMode \in Modes]_vars

\* setMode with a value outside the enumeration was rejected for an LED whose
\* override a tick had activated, and the LED still runs the override's mode.
C20_Witness ==
  /\ op = "setMode"
  /\ request[1] = 0
  /\ request[2] \notin Modes
  /\ ret.code = "INVALID_CONFIG"
  /\ leds[0].tempActive
  /\ leds[0].mode = kPresets[findPreset("Error")].mode

\* The step is a call of setPreset, setDefaultPreset or setTemporaryPreset on
\* an initialized engine, for an LED that is configured.
PresetSetterStep ==
  /\ calls' = calls + 1
  /\ op' \in {"setPreset", "setDefaultPreset", "setTemporaryPreset"}
  /\ initialized
  /\ request'[1] < config.ledCount

\* C21: preset and duration validation.  setPreset, setDefaultPreset and
\* setTemporaryPreset given a preset that is not in the preset table return
\* INVALID_CONFIG, leave the LED's mode, colours, presets and frame entry
\* as they are and mark no override pending; setTemporaryPreset given durationMs = 0
\* returns INVALID_CONFIG and changes nothing of the LED, so no override is
\* marked pending; and a call that marks an override pending was given a
\* preset of the table and a duration other than 0.
C21_PresetValidation ==
  [][PresetSetterStep =>
       /\ request'[2] \notin {kPresets[k].preset : k \in 1..Len(kPresets)} =>
            /\ ret'.code = "INVALID_CONFIG"
            /\ lastStatus' = ret'
            /\ Settings(leds'[0]) = Settings(leds[0])
            /\ leds'[0].defaultPreset = leds[0].defaultPreset
            /\ leds'[0].tempPreset = leds[0].tempPreset
            /\ ~leds[0].tempPending => ~leds'[0].tempPending
            /\ UNCHANGED <<frame, frameDirty>>
       /\ (op' = "setTemporaryPreset" /\ request'[3] = <<0, 0>>) =>
            /\ ret'.code = "INVALID_CONFIG"
            /\ lastStatus' = ret'
            /\ UNCHANGED <<leds, frame, frameDirty>>
       /\ (~leds[0].tempPending /\ leds'[0].tempPending) =>
            /\ op' = "setTemporaryPreset"
            /\ ret' = Ok
            /\ request'[2] \in Presets
            /\ request'[3] # <<0, 0>>]_vars

\* setTemporaryPreset with durationMs = 0 has been rejected for an LED that
\* runs a preset, and no override is pending or active.
C21_Witness ==
  /\ op = "setTemporaryPreset"
  /\ request[3] = <<0, 0>>
  /\ ret = Status("INVALID_CONFIG", 0)
  /\ leds[0].currentPreset = "Ready"
  /\ ~leds[0].tempPending
  /\ ~leds[0].tempActive

\* C22: default preset.  A setDefaultPreset(i, p) that returns OK records p
\* as the LED's default preset.  If the LED's mode is Off and its current
\* preset is Off, p is applied as setPreset applies it: the current preset
\* is p, mode and colours are those of p's table entry, the parameters are
\* the mode's defaults and the mode starts afresh at the time of the last
\* tick.  Otherwise mode, parameters, colours, current preset, intensity,
\* the deadlines and the frame entry are unchanged.
C22_DefaultPreset ==
  [][(PresetSetterStep /\ op' = "setDefaultPreset" /\ ret' = Ok) =>
       /\ leds'[0].defaultPreset = request'[2]
       /\ IF leds[0].mode = "Off" /\ leds[0].currentPreset = "Off"
          THEN /\ leds'[0].currentPreset = request'[2]
               /\ leds'[0].mode = kPresets[findPreset(request'[2])].mode
               /\ leds'[0].color = kPresets[findPreset(request'[2])].primary
               /\ leds'[0].altColor = kPresets[findPreset(request'[2])].secondary
               /\ leds'[0].params = getModeDefaults(leds'[0].mode)
               /\ leds'[0].modeStartMs = lastTickMs
               /\ leds'[0].nextUpdateMs = lastTickMs
          ELSE /\ Settings(leds'[0]) = Settings(leds[0])
               /\ leds'[0].intensity = leds[0].intensity
               /\ leds'[0].nextUpdateMs = leds[0].nextUpdateMs
               /\ leds'[0].modeStartMs = leds[0].modeStartMs
               /\ frame' = frame]_vars

\* setDefaultPreset has stored a default preset for an LED that a manual
\* setMode had lit, and the LED still runs that mode with no preset.
C22_Witness ==
  /\ op = "setDefaultPreset"
  /\ ret = Ok
  /\ leds[0].defaultPreset = "Error"
  /\ leds[0].currentPreset = "Off"
  /\ leds[0].mode = "Solid"

\* C23: snapshot remaining time.  A getLedSnapshot that returns OK reports
\* tempRemainingMs = 0 when the LED has no active override or when the
\* override's expiry is reached at the time of the last tick, and otherwise
\* the expiry minus the time of the last tick, modulo 2^32; and no call of
\* getLedSnapshot, whatever it returns, changes the engine: LED states,
\* frame, dirty flag, last status, last tick time, configuration, backend.
C23_SnapshotRemaining ==
  [][SnapshotStep =>
       /\ ret' = Ok =>
            /\ snapshot'.tempActive = leds[request'[1]].tempActive
            /\ snapshot'.tempRemainingMs =
                 IF ~leds[request'[1]].tempActive THEN U32(0)
                 ELSE IF timeReached(lastTickMs, leds[request'[1]].tempUntilMs) THEN U32(0)
                 ELSE Sub32(leds[request'[1]].tempUntilMs, lastTickMs)
       /\ UNCHANGED <<initialized, config, lastStatus, lastTickMs, frameDirty,
                      leds, frame, backend, shown>>]_vars

\* getLedSnapshot has reported the rest of an override whose expiry lies
\* beyond the 32-bit wrap, a tick after the one that activated it: the rest
\* is less than the duration, and the expiry is a smaller number than the
\* time of the last tick.
C23_Witness ==
  /\ op = "getLedSnapshot"
  /\ ret = Ok
  /\ snapshot.tempActive
  /\ leds[0].tempActive
  /\ snapshot.tempRemainingMs = Sub32(leds[0].tempUntilMs, lastTickMs)
  /\ snapshot.tempRemainingMs \notin {U32(0), leds[0].tempDurationMs}
  /\ leds[0].tempUntilMs[1] < lastTickMs[1]

\* refreshLedOutput has been applied.
Refreshed == applied.fn = "refreshLedOutput" /\ applied.done

\* The colour refreshLedOutput was given as base.
RefreshedBase ==
  IF applied.args.useAlt THEN applied.args.altColor ELSE applied.args.color

\* C24 as stated: every channel of the frame entry is the base colour's
\* channel scaled by the intensity, the result scaled by the per-LED
\* brightness, and that result scaled by the global brightness.
C24_ChannelScaledThrice ==
  Refreshed =>
    \A k \in 1..3 :
      applied.result.out[k] =
        scale8(scale8(scale8(RefreshedBase[k], applied.args.intensity),
                      applied.args.brightness),
               applied.args.globalBrightness)

\* C24 (amended): every channel of the frame entry is the channel of the
\* primary colour, or of the secondary colour when the alternate-colour flag
\* is set, scaled once, by a factor that is the intensity scaled by the
\* per-LED brightness and then by the global brightness:
\* scale(c, scale(scale(intensity, perLedBrightness), globalBrightness)).
C24_OutputPipeline ==
  Refreshed =>
    \A k \in 1..3 :
      applied.result.out[k] =
        scale8(RefreshedBase[k],
               scale8(scale8(applied.args.intensity, applied.args.brightness),
                      applied.args.globalBrightness))

\* refreshLedOutput has written a frame entry from the secondary colour
\* whose blue channel, 1 at intensity 128 and brightness 128, came out as 0,
\* where scaling the channel three times gives 1.
C24_Witness ==
  /\ Refreshed
  /\ applied.args.useAlt
  /\ applied.args.altColor[3] = 1
  /\ applied.args.intensity = 128
  /\ applied.args.brightness = 128
  /\ applied.args.globalBrightness = 255
  /\ applied.result.out[3] = 0
  /\ applied.result.out[1] # 0
  /\ applied.result.dirty

\* C25: brightness scaling identities.  scale8(v, 255) = v and
\* scale8(v, 0) = 0 for every byte v, and for every pair of bytes the value
\* that is divided by 255 fits in 16 bits and the quotient in 8.
C25_ScaleIdentities ==
  (applied.fn = "scale8" /\ applied.done) =>
    /\ applied.args[2] = 255 => applied.result.out = applied.args[1]
    /\ applied.args[2] = 0 => applied.result.out = 0
    /\ applied.result.sum < 65536
    /\ applied.result.sum \div 255 < 256
    /\ applied.result.out = applied.result.sum \div 255

\* scale8(255, 255) has been computed: the largest sum, 65152, and the
\* result 255.
C25_Witness ==
  /\ applied.fn = "scale8"
  /\ applied.done
  /\ applied.args = <<255, 255>>
  /\ applied.result = [out |-> 255, sum |-> 65152]

\* C26: parameter invariants.  In every reachable state the stored
\* parameters of every LED have periodMs >= 2, onMs <= periodMs and
\* minLevel <= maxLevel, riseMs >= 1 if the LED's mode is FadeIn and
\* fallMs >= 1 if it is FadeOut.
C26_ParamsSanitized ==
  \A i \in Slots :
    /\ leds[i].params.periodMs >= 2
    /\ leds[i].params.onMs <= leds[i].params.periodMs
    /\ leds[i].params.minLevel <= leds[i].params.maxLevel
    /\ leds[i].mode = "FadeIn" => leds[i].params.riseMs >= 1
    /\ leds[i].mode = "FadeOut" => leds[i].params.fallMs >= 1

\* A tick has ended an override and restored a FadeIn mode that setMode had
\* been given with period 0, on-time 5, rise time 0 and levels 200 / 100:
\* the LED holds period 2, on-time 2, rise time 1 and levels 100 / 200.
C26_Witness ==
  /\ op = "tick"
  /\ tickInfo.expired = {0}
  /\ leds[0].mode = "FadeIn"
  /\ leds[0].params = ModeParams(2, 2, 1, 0, 100, 200)

\* The uint32_t a read as a two's complement int32_t.
AsSigned(a) ==
  IF a[1] >= 32768 THEN (a[1] - Half16) * Half16 + a[2] ELSE a[1] * Half16 + a[2]

\* C27: wraparound-safe deadline test.  For timestamps now and target whose
\* true distance is less than 2^31 either way, timeReached(now, target) is
\* true exactly when now is at or after target, whether or not the counter
\* wrapped between the two; the difference now - target modulo 2^32 read as
\* a signed number is that distance, and the test is that it is not
\* negative.
C27_DeadlineReached ==
  (applied.fn = "timeReached" /\ applied.done) =>
    /\ applied.result.reached = (applied.args.distance >= 0)
    /\ AsSigned(Sub32(applied.args.now, applied.args.target)) = applied.args.distance
    /\ applied.result.reached =
         (AsSigned(Sub32(applied.args.now, applied.args.target)) >= 0)

\* A deadline 100 ms before the wrap has been tested 100 ms after the wrap,
\* where now is the smaller number, and found reached.
C27_Witness ==
  /\ applied.fn = "timeReached"
  /\ applied.done
  /\ applied.args.target = <<65535, 65436>>
  /\ applied.args.now = <<0, 0>>
  /\ applied.result.reached

\* C28: last-error retention.  Once the last status is an error, it stays
\* what it is until another error replaces it: no step, be it a successful
\* call or a tick that finds the backend busy, sets it back to OK.
C28_ErrorRetained ==
  [][lastStatus.code # "OK" =>
       (lastStatus' = lastStatus \/ lastStatus'.code # "OK")]_vars

\* The LED states and the frame the first run had at the point the second
\* run has come to: before the next recorded call, or at its end.
Recorded ==
  IF journal.pos < Len(journal.log)
  THEN [leds |-> journal.log[journal.pos + 1].leds,
        frame |-> journal.log[journal.pos + 1].frame]
  ELSE [leds |-> journal.leds, frame |-> journal.frame]

\* C29: backend outcomes do not influence animation.  A second run given
\* the same setter calls and the same tick timestamps as a first run whose
\* backend took every frame has, after each call, the same state of every
\* LED (all fields) and the same frame as the first run had there, whatever
\* its backend answers to canShow and show.
C29_BackendIndependent ==
  journal.mode = "replay" =>
    /\ leds = Recorded.leds
    /\ frame = Recorded.frame

\* The second run has come to the end of a recorded run in which an
\* override was activated, and its last tick found the backend failing: the
\* frame is still to be sent and the fault is the last status, where the
\* first run had sent everything.
C29_Witness ==
  /\ journal.mode = "replay"
  /\ journal.pos = Len(journal.log)
  /\ journal.pos >= 3
  /\ op = "tick"
  /\ request = <<TRUE, Fault>>
  /\ leds[0].tempActive
  /\ leds[0].intensity > 0
  /\ frameDirty
  /\ lastStatus = Fault
  /\ shown # frame

\* LED j is touched by the tick whose outcome is info: it was evaluated, or
\* an override of it was activated or ended.
Touched(j, info) == j \in info.evaluated \cup info.activated \cup info.expired

\* C30: LEDs are independent.  A per-LED setter addressed to LED i leaves
\* the state and the frame entry of every other LED as they are.  A tick
\* leaves every LED after it as updateLed makes it from that LED's own state,
\* its own frame entry and the time alone; in particular an LED that is not
\* due and has no override to start or end keeps its state, its generator
\* value and its frame entry while the other LED is evaluated, has its
\* override started or ended, or advances its generator.
\* setGlobalBrightness changes no field of any LED.
C30_LedsIndependent ==
  [][/\ (initialized /\ LedSetterStep) =>
          \A j \in Slots : j # request'[1] =>
            leds'[j] = leds[j] /\ frame'[j] = frame[j]
     /\ (initialized /\ TickStep) =>
          \A j \in Slots :
            /\ j < config.ledCount =>
                 /\ leds'[j] = updateLed(Ctx(leds[j], frame[j]), lastTickMs',
                                         config.globalBrightness,
                                         config.smoothStepMs).led
                 /\ frame'[j] = updateLed(Ctx(leds[j], frame[j]), lastTickMs',
                                          config.globalBrightness,
                                          config.smoothStepMs).out
            /\ ~Touched(j, tickInfo') =>
                 leds'[j] = leds[j] /\ frame'[j] = frame[j]
     /\ (initialized /\ SetterStep /\ op' = "setGlobalBrightness") =>
          leds' = leds]_vars

\* A tick has evaluated LED 0, which had flickered and is under an override,
\* and has not touched the blinking LED 1, whose generator is as seeded.
C30_Witness ==
  /\ op = "tick"
  /\ 0 \in tickInfo.evaluated
  /\ leds[0].tempActive
  /\ leds[0].resumeMode = "FlickerCandle"
  /\ leds[0].lfsr # LedState(0).lfsr
  /\ ~Touched(1, tickInfo)
  /\ leds[1].mode = "BlinkFast"
  /\ leds[1].lfsr = LedState(1).lfsr

\* The LED has been evaluated at least once in a row of evaluations.
Evaluated == applied.fn = "updateLed" /\ applied.done

\* The table step the n-th evaluation (counted from 0) of a table-driven
\* mode is to emit: step n mod the table's length.
StepOf(mode, n) == PatternOf(mode)[(n % Len(PatternOf(mode))) + 1]

\* C31: table-driven modes cycle through their table in order.  The n-th
\* evaluation after the mode is set (n = 0, 1, 2, ...) leaves the LED with
\* the intensity and the alternate-colour flag of table step n mod the
\* table's length, and with its next evaluation at the time of this one
\* plus that step's duration; for every n, also beyond 256.
C31_TableInOrder ==
  (Evaluated /\ applied.args.mode \in PatternModes) =>
    /\ applied.result.led.intensity =
         StepOf(applied.args.mode, applied.args.n - 1).intensity
    /\ applied.result.led.useAlt =
         StepOf(applied.args.mode, applied.args.n - 1).useAlt
    /\ applied.result.led.nextUpdateMs =
         Add32(applied.args.now,
               U32(StepOf(applied.args.mode, applied.args.n - 1).durationMs))

\* v lies between a and b, whichever is the larger.
Between(v, a, b) == (a <= v /\ v <= b) \/ (b <= v /\ v <= a)

\* C32: linear interpolation stays between its endpoints.  For a span > 0
\* and positions p <= q <= span, lerpU8(a, b, 0, span) = a,
\* lerpU8(a, b, span, span) = b, both values lie between a and b, and the
\* value at q is at least as far from a towards b as the value at p, for
\* a <= b and for a > b; for span = 0 the result is b.
C32_LerpBetweenEndpoints ==
  (applied.fn = "lerpU8" /\ applied.done) =>
    IF applied.args.span = 0
    THEN applied.result = <<applied.args.maxVal, applied.args.maxVal>>
    ELSE /\ \A k \in 1..2 :
              /\ applied.args.pos[k] = 0 => applied.result[k] = applied.args.minVal
              /\ applied.args.pos[k] = applied.args.span =>
                   applied.result[k] = applied.args.maxVal
              /\ Between(applied.result[k], applied.args.minVal, applied.args.maxVal)
         /\ Between(applied.result[1], applied.args.minVal, applied.result[2])

\* The position of the time now in the period of params, and the period's
\* midpoint.
PulsePhase(params, now) == Mod32(now, params.periodMs)

PulseHalf(params) == params.periodMs \div 2

\* The pre-easing intensity of a pulse-family LED evaluated at now.
RawAt(led, now) == PulseRaw(led.params, PulsePhase(led.params, now), PulseHalf(led.params))

\* The step is one more evaluation of a pulse-family LED.
PulseStep ==
  /\ applied.fn = "updateLed"
  /\ applied.args.mode \in PulseModes
  /\ applied'.args.n = applied.args.n + 1

\* C33: pulse-family ramp.  At every evaluation of a PulseSoft, PulseSharp,
\* Breathing or Throb LED the pre-easing intensity lies within minLevel ..
\* maxLevel; from one evaluation to the next it does not fall while both lie
\* in the first half of the period and does not rise while both lie in the
\* second half; for PulseSharp the LED's intensity is that value; and the
\* next evaluation is scheduled at the time of this one plus smoothStepMs.
C33_PulseRamp ==
  [][PulseStep =>
       /\ RawAt(applied.result.led, applied'.args.now)
            >= applied.result.led.params.minLevel
       /\ RawAt(applied.result.led, applied'.args.now)
            <= applied.result.led.params.maxLevel
       /\ (/\ applied.done
           /\ PulsePhase(applied.result.led.params, applied.args.now)
                < PulsePhase(applied.result.led.params, applied'.args.now)
           /\ PulsePhase(applied.result.led.params, applied'.args.now)
                < PulseHalf(applied.result.led.params)) =>
            RawAt(applied.result.led, applied.args.now)
              <= RawAt(applied.result.led, applied'.args.now)
       /\ (/\ applied.done
           /\ PulseHalf(applied.result.led.params)
                <= PulsePhase(applied.result.led.params, applied.args.now)
           /\ PulsePhase(applied.result.led.params, applied.args.now)
                < PulsePhase(applied.result.led.params, applied'.args.now)) =>
            RawAt(applied.result.led, applied.args.now)
              >= RawAt(applied.result.led, applied'.args.now)
       /\ applied.args.mode = "PulseSharp" =>
            applied'.result.led.intensity
              = RawAt(applied.result.led, applied'.args.now)
       /\ applied'.result.led.nextUpdateMs
            = Add32(applied'.args.now, U32(config.smoothStepMs))]_vars

\* A flicker LED has been evaluated.
Flickered == applied.fn = "EvalFlicker" /\ applied.done

C40_GeneratorAlive ==
  /\ \A i \in Slots :
       /\ leds[i].lfsr = BitXor(703710, i * 7919)
       /\ leds[i].lfsr # 0
       /\ \A j \in Slots : i # j => leds[i].lfsr # leds[j].lfsr
  /\ applied.fn = "EvalFlicker" => applied.result.lfsr # 0

\* The generator has come to the value 1, from which the next step gives
\* 0xB400: it runs in the 16-bit cycle, far from its 20-bit seed.
C40_Witness ==
  /\ Flickered
  /\ applied.result.lfsr = 1
  /\ LfsrNext(applied.result.lfsr) = 46080

\* The last step was a tick that found LED 0's override due and ended it:
\* the LED has the mode, parameters, colours, brightness and preset of its
\* resume slot, its mode starts at the time of the tick, and it is not
\* under an override.
ExpiredByTick ==
  /\ op = "tick"
  /\ 0 \in tickInfo.expired
  /\ ~leds[0].tempActive
  /\ leds[0].mode = leds[0].resumeMode
  /\ leds[0].params = leds[0].resumeParams
  /\ leds[0].color = leds[0].resumeColor
  /\ leds[0].altColor = leds[0].resumeAltColor
  /\ leds[0].brightness = leds[0].resumeBrightness
  /\ leds[0].currentPreset = leds[0].resumePreset
  /\ leds[0].modeStartMs = lastTickMs

\* C35: an active override always ends.  While tick keeps being called with
\* advancing timestamps, an active override leads to a tick that finds its
\* expiry reached, restores every field of the resume slot, restarts the
\* mode at the time of the tick, clears tempActive, and evaluates the
\* restored mode in that same tick.
C35_OverrideEnds ==
  leds[0].tempActive ~> (ExpiredByTick /\ 0 \in tickInfo.evaluated)

\* C36: setPreset cancels overrides.  After a setPreset(0, p) that returns
\* OK the LED has neither a pending nor an active override and shows p: its
\* current preset is p and its mode and colours are those of p's table
\* entry.  No later tick reverts it: a tick that finds the LED with neither
\* a pending nor an active override ends no override and leaves mode,
\* parameters, colours, brightness and preset as they are, whatever the
\* old expiry time; and only setTemporaryPreset makes an override pending
\* or, through the tick that follows, active.
C36_SetPresetCancels ==
  [][/\ (PresetSetterStep /\ op' = "setPreset" /\ ret' = Ok) =>
          /\ ~leds'[0].tempPending
          /\ ~leds'[0].tempActive
          /\ leds'[0].currentPreset = request'[2]
          /\ leds'[0].mode = kPresets[findPreset(request'[2])].mode
          /\ leds'[0].color = kPresets[findPreset(request'[2])].primary
          /\ leds'[0].altColor = kPresets[findPreset(request'[2])].secondary
     /\ (TickStep /\ ~leds[0].tempPending /\ ~leds[0].tempActive) =>
          /\ 0 \notin tickInfo'.expired
          /\ 0 \notin tickInfo'.activated
          /\ ~leds'[0].tempPending
          /\ ~leds'[0].tempActive
          /\ Settings(leds'[0]) = Settings(leds[0])
     /\ (~leds[0].tempPending /\ leds'[0].tempPending) =>
          op' = "setTemporaryPreset"
     /\ (~leds[0].tempActive /\ leds'[0].tempActive) =>
          (op' = "tick" /\ leds[0].tempPending)]_vars

\* A tick past the expiry of an override that setPreset had cancelled while
\* it was active (the preset was applied before the expiry time): the LED
\* still shows the preset, Ready, not the state the override had saved.
C36_Witness ==
  /\ op = "tick"
  /\ leds[0].currentPreset = "Ready"
  /\ leds[0].resumePreset = "Off"
  /\ leds[0].tempPreset = "Error"
  /\ leds[0].tempUntilMs # U32(0)
  /\ timeReached(lastTickMs, leds[0].tempUntilMs)
  /\ ~timeReached(leds[0].modeStartMs, leds[0].tempUntilMs)
  /\ ~leds[0].tempActive
  /\ ~leds[0].tempPending
  /\ tickInfo.expired = {}

\* C37: errors leave state unchanged.  Whenever a setter returns a result
\* other than OK, every LED's state (mode, parameters, colours, current and
\* default preset, pending and active override flags, override target and
\* duration, timestamps), the frame and the dirty flag are as before the
\* call; the result is recorded as the last status.
C37_ErrorsChangeNothing ==
  [][(SetterStep /\ ret' # Ok) =>
       /\ UNCHANGED <<leds, frame, frameDirty>>
       /\ lastStatus' = ret']_vars

\* C38: a clean frame is the delivered frame.  In every state of an
\* initialized engine in which the dirty flag is clear, the frame entry of
\* every configured LED equals the entry of the frame taken by the most
\* recent successful show: a frame entry changed since then keeps the flag
\* set until a show succeeds.
C38_CleanMeansDelivered ==
  (initialized /\ ~frameDirty) =>
    \A i \in 0..(config.ledCount - 1) : frame[i] = shown[i]

\* A frame that lights the LED has been delivered by a tick, after an
\* earlier show had failed with the frame dirty.
C38_Witness ==
  /\ initialized
  /\ op = "tick"
  /\ tickInfo.showCalled
  /\ ~frameDirty
  /\ lastStatus = Fault
  /\ frame[0] # kColorOff
  /\ shown[0] = frame[0]

\* C39: manual setters clear the preset identity.  A setMode, setColor or
\* setSecondaryColor that returns OK leaves the LED with current preset Off
\* and its default preset as it was; setBrightness and setGlobalBrightness
\* leave the current and the default preset of every LED as they were; and
\* setMode also leaves phase 0, the alternate-colour flag false and
\* modeStartMs, nextUpdateMs and phaseEndMs equal to the time of the most
\* recent tick.
C39_ManualClearsPreset ==
  [][(SetterStep /\ ret' = Ok) =>
       /\ op' \in {"setMode", "setColor", "setSecondaryColor"} =>
            /\ leds'[request'[1]].currentPreset = "Off"
            /\ leds'[request'[1]].defaultPreset = leds[request'[1]].defaultPreset
       /\ op' \in {"setBrightness", "setGlobalBrightness"} =>
            \A i \in Slots :
              /\ leds'[i].currentPreset = leds[i].currentPreset
              /\ leds'[i].defaultPreset = leds[i].defaultPreset
       /\ op' = "setMode" =>
            /\ leds'[request'[1]].phase = 0
            /\ ~leds'[request'[1]].useAlt
            /\ leds'[request'[1]].modeStartMs = lastTickMs
            /\ leds'[request'[1]].nextUpdateMs = lastTickMs
            /\ leds'[request'[1]].phaseEndMs = lastTickMs]_vars

\* setMode has been called, after a tick, on an LED that ran the preset
\* Ready: the current preset is Off, the colour is still the preset's and
\* the mode starts at the time of that tick.
C39_Witness ==
  /\ op = "setMode"
  /\ ret = Ok
  /\ lastTickMs # U32(0)
  /\ leds[0].currentPreset = "Off"
  /\ leds[0].color = kPresets[findPreset("Ready")].primary
  /\ leds[0].color # LedState(0).color
  /\ leds[0].mode = "Solid"
  /\ leds[0].phase = 0
  /\ leds[0].modeStartMs = lastTickMs
  /\ leds[0].nextUpdateMs = lastTickMs

====
